---- MODULE Spec2Model ----
(***************************************************************************)
(* JSONParser (final_rendition.py): declarative extraction of flat tables   *)
(* from a nested JSON document.                                             *)
(*                                                                          *)
(* Paths, aliases and patterns are Python strings in the source.  Here a    *)
(* string is a sequence of tokens: a key name is one token, and ".", "[",   *)
(* "]", "*" and every decimal digit are one token each, so that split,      *)
(* startswith, the index regex and the compiled pattern regex are computed  *)
(* on the text as the source computes them.                                 *)
(***************************************************************************)
EXTENDS Integers, Sequences, FiniteSets, TLC

(***************************************************************************)
(* Bounds of the explored inputs.                                           *)
(***************************************************************************)
MaxItems == 2
MaxTx == 1
MaxWalks == 2
LongLen == 11
MaxDepth == 2
MaxFields == 3

(***************************************************************************)
(* Python string primitives on token sequences.                             *)
(***************************************************************************)
Dot == "."
LB == "["
RB == "]"
Star == "*"
DigitTokens == <<"0", "1", "2", "3", "4", "5", "6", "7", "8", "9">>
IsDigit(c) == \E d \in 1..10 : DigitTokens[d] = c
Wildcard == <<LB, Star, RB>>
Root == <<"root">>

RECURSIVE IntStr(_)
\* f"{index}": the decimal text of a non-negative integer.
IntStr(n) ==
    IF n < 10 THEN <<DigitTokens[n + 1]>>
    ELSE IntStr(n \div 10) \o <<DigitTokens[(n % 10) + 1]>>

\* s[i:] (0-based i) of Python.
Drop(s, i) == SubSeq(s, i + 1, Len(s))

\* s.startswith(p)
StartsWith(s, p) == Len(p) <= Len(s) /\ SubSeq(s, 1, Len(p)) = p

\* sub in s
Contains(s, sub) == \E i \in 0..(Len(s) - Len(sub)) : StartsWith(Drop(s, i), sub)

\* s.count(c) for a one-token c
Count(s, c) == Cardinality({i \in 1..Len(s) : s[i] = c})

\* s.find(c) + 1 for a one-token c; 0 when c does not occur.
Find(s, c) ==
    IF \E i \in 1..Len(s) : s[i] = c
    THEN CHOOSE i \in 1..Len(s) : s[i] = c /\ \A j \in 1..(i - 1) : s[j] # c
    ELSE 0

RECURSIVE Split(_, _)
\* s.split(c): "".split(".") is [""], "a.b".split(".") is ["a", "b"].
Split(s, c) ==
    LET i == Find(s, c)
    IN IF i = 0 THEN <<s>>
       ELSE <<SubSeq(s, 1, i - 1)>> \o Split(Drop(s, i), c)

RECURSIVE Join(_)
\* ".".join(segments)
Join(segs) ==
    IF Len(segs) = 0 THEN <<>>
    ELSE IF Len(segs) = 1 THEN segs[1]
    ELSE segs[1] \o <<Dot>> \o Join(Tail(segs))

\* segments[:-1]
ButLast(segs) == IF Len(segs) = 0 THEN <<>> ELSE SubSeq(segs, 1, Len(segs) - 1)

\* ".".join(alias.split(".")[:-1])
AliasPrefix(alias) == Join(ButLast(Split(alias, Dot)))

\* seg.split("[")[0]
KeyBase(seg) == Split(seg, LB)[1]

RECURSIVE DigitRun(_)
\* The longest run of digits at the start of s.
DigitRun(s) ==
    IF Len(s) > 0 /\ IsDigit(s[1]) THEN <<s[1]>> \o DigitRun(Tail(s)) ELSE <<>>

RECURSIVE IndexPatternSearchOneDigit(_)
\* The search with the pattern r"\[(\d)\]": an index of one digit only.
IndexPatternSearchOneDigit(seg) ==
    IF Len(seg) = 0 THEN <<>>
    ELSE IF Len(seg) >= 3 /\ seg[1] = LB /\ IsDigit(seg[2]) /\ seg[3] = RB
    THEN <<seg[2]>>
    ELSE IndexPatternSearchOneDigit(Tail(seg))

RECURSIVE IndexPatternSearch(_)
\* re.compile(r"\[(\d+)\]").search(seg): group(1) of the leftmost match, or the
\* empty sequence when there is no match (a match never has an empty group).
IndexPatternSearch(seg) ==
    IF Len(seg) = 0 THEN <<>>
    ELSE LET run == DigitRun(Tail(seg))
         IN IF seg[1] = LB /\ Len(run) > 0
               /\ Len(seg) >= Len(run) + 2 /\ seg[Len(run) + 2] = RB
            THEN run
            ELSE IndexPatternSearch(Tail(seg))

(***************************************************************************)
(* JSON values.  A mapping keeps its (key, value) pairs in insertion order, *)
(* as a Python dict does; JSON null and Python None are the same value.     *)
(***************************************************************************)
None == [t |-> "null"]
Str(v) == [t |-> "str", v |-> v]
Num(v) == [t |-> "num", v |-> v]
Dict(kv) == [t |-> "dict", kv |-> kv]
List(items) == [t |-> "list", items |-> items]
IsDict(v) == v.t = "dict"
IsList(v) == v.t = "list"

\* key in obj
HasKey(obj, key) == \E i \in 1..Len(obj.kv) : obj.kv[i][1] = key

\* obj.get(key)
DictGet(obj, key) ==
    IF HasKey(obj, key)
    THEN obj.kv[CHOOSE i \in 1..Len(obj.kv) : obj.kv[i][1] = key][2]
    ELSE None

\* cache.get(key) on a dict keyed by path strings
Lookup(cache, key) == IF key \in DOMAIN cache THEN cache[key] ELSE None

\* cache[key] = value
Store(cache, key, value) ==
    [k \in DOMAIN cache \cup {key} |-> IF k = key THEN value ELSE cache[k]]

EmptyDict == [k \in {} |-> None]

(***************************************************************************)
(* The compiled pattern: re.escape(pattern) with every escaped "[*]"        *)
(* replaced by \[\d+\].  A regex is a sequence of atoms, <<"lit", c>> for   *)
(* an escaped literal token and <<"d+">> for \d+.                           *)
(***************************************************************************)
RECURSIVE CompilePattern(_)
CompilePattern(pattern) ==
    IF Len(pattern) = 0 THEN <<>>
    ELSE IF StartsWith(pattern, Wildcard)
    THEN <<<<"lit", LB>>, <<"d+">>, <<"lit", RB>>>> \o CompilePattern(Drop(pattern, 3))
    ELSE <<<<"lit", pattern[1]>>>> \o CompilePattern(Tail(pattern))

RECURSIVE FullMatchOneDigit(_, _)
\* fullmatch of the pattern compiled with \d in place of \d+
FullMatchOneDigit(regex, s) ==
    IF Len(regex) = 0 THEN Len(s) = 0
    ELSE IF regex[1][1] = "lit"
    THEN Len(s) > 0 /\ s[1] = regex[1][2] /\ FullMatchOneDigit(Tail(regex), Tail(s))
    ELSE Len(s) > 0 /\ IsDigit(s[1]) /\ FullMatchOneDigit(Tail(regex), Tail(s))

RECURSIVE FullMatch(_, _)
\* regex.fullmatch(s) is not None
FullMatch(regex, s) ==
    IF Len(regex) = 0 THEN Len(s) = 0
    ELSE IF regex[1][1] = "lit"
    THEN Len(s) > 0 /\ s[1] = regex[1][2] /\ FullMatch(Tail(regex), Tail(s))
    ELSE \E k \in 1..Len(DigitRun(s)) : FullMatch(Tail(regex), Drop(s, k))

RECURSIVE PrefixMatch(_, _)
\* regex.match(s) is not None: the pattern matched at the start of s only.
PrefixMatch(regex, s) ==
    IF Len(regex) = 0 THEN TRUE
    ELSE IF regex[1][1] = "lit"
    THEN Len(s) > 0 /\ s[1] = regex[1][2] /\ PrefixMatch(Tail(regex), Tail(s))
    ELSE \E k \in 1..Len(DigitRun(s)) : PrefixMatch(Tail(regex), Drop(s, k))

\* _parsing_path_matches with match in place of fullmatch
PathMatchesPrefix(path, pattern) == PrefixMatch(CompilePattern(pattern), path)

\* _parsing_path_matches (the regex cache only memoises CompilePattern)
PathMatches(path, pattern) == FullMatch(CompilePattern(pattern), path)

(***************************************************************************)
(* _parsing_replace_wildcard_with_index                                     *)
(***************************************************************************)
\* The scan started at 0 instead of current_index.
ScanForKeyFromStart(current_segments, current_index, key_name) ==
    LET hits == {index \in 0..(Len(current_segments) - 1) :
                    /\ StartsWith(current_segments[index + 1], key_name \o <<LB>>)
                    /\ IndexPatternSearch(current_segments[index + 1]) # <<>>}
    IN IF hits = {} THEN -1
       ELSE CHOOSE index \in hits : \A other \in hits : index <= other

\* The first index in range(current_index, len(current_segments)) whose
\* segment starts with key_name + "[" and holds a "[digits]"; -1 when the
\* inner for loop ends without a break.
ScanForKey(current_segments, current_index, key_name) ==
    LET hits == {index \in current_index..(Len(current_segments) - 1) :
                    /\ StartsWith(current_segments[index + 1], key_name \o <<LB>>)
                    /\ IndexPatternSearch(current_segments[index + 1]) # <<>>}
    IN IF hits = {} THEN -1
       ELSE CHOOSE index \in hits : \A other \in hits : index <= other

RECURSIVE ResolveSegmentsFirstElement(_, _, _, _)
\* The loop with `if not found: resolved_segments.append(f"{key_name}[0]")`.
ResolveSegmentsFirstElement(alias_segments, current_segments, current_index,
                            resolved_segments) ==
    IF Len(alias_segments) = 0 THEN resolved_segments
    ELSE LET alias_segment == alias_segments[1]
             rest == Tail(alias_segments)
         IN IF Contains(alias_segment, Wildcard)
            THEN LET key_name == KeyBase(alias_segment)
                     index == ScanForKey(current_segments, current_index, key_name)
                 IN IF index >= 0
                    THEN ResolveSegmentsFirstElement(rest, current_segments, index + 1,
                            Append(resolved_segments,
                                   key_name \o <<LB>>
                                   \o IndexPatternSearch(current_segments[index + 1])
                                   \o <<RB>>))
                    ELSE ResolveSegmentsFirstElement(rest, current_segments, current_index,
                            Append(resolved_segments, key_name \o <<LB, "0", RB>>))
            ELSE ResolveSegmentsFirstElement(rest, current_segments,
                    IF /\ current_index < Len(current_segments)
                       /\ current_segments[current_index + 1] = alias_segment
                    THEN current_index + 1 ELSE current_index,
                    Append(resolved_segments, alias_segment))

ReplaceWildcardWithFirstElement(alias_path, current_path) ==
    Join(ResolveSegmentsFirstElement(Split(alias_path, Dot), Split(current_path, Dot),
                                     0, <<>>))

RECURSIVE ResolveSegments(_, _, _, _)
\* The loop over alias_segments; returns resolved_segments.
ResolveSegments(alias_segments, current_segments, current_index, resolved_segments) ==
    IF Len(alias_segments) = 0 THEN resolved_segments
    ELSE LET alias_segment == alias_segments[1]
             rest == Tail(alias_segments)
         IN IF Contains(alias_segment, Wildcard)
            THEN LET key_name == KeyBase(alias_segment)
                     index == ScanForKey(current_segments, current_index, key_name)
                 IN IF index >= 0
                    THEN ResolveSegments(rest, current_segments, index + 1,
                            Append(resolved_segments,
                                   key_name \o <<LB>>
                                   \o IndexPatternSearch(current_segments[index + 1])
                                   \o <<RB>>))
                    ELSE ResolveSegments(rest, current_segments, current_index,
                            Append(resolved_segments, alias_segment))
            ELSE ResolveSegments(rest, current_segments,
                    IF /\ current_index < Len(current_segments)
                       /\ current_segments[current_index + 1] = alias_segment
                    THEN current_index + 1 ELSE current_index,
                    Append(resolved_segments, alias_segment))

ReplaceWildcardWithIndex(alias_path, current_path) ==
    Join(ResolveSegments(Split(alias_path, Dot), Split(current_path, Dot), 0, <<>>))

(***************************************************************************)
(* Data models.  A model class is [name, fields]; a field is                *)
(* [name, alias, type, required].  A field declared without an alias has    *)
(* the alias NoAlias (field_info.alias is None).                            *)
(***************************************************************************)
NoAlias == <<"None">>
F(name, alias, type) == [name |-> name, alias |-> alias, type |-> type, required |-> TRUE]
Opt(name, alias, type) == [name |-> name, alias |-> alias, type |-> type, required |-> FALSE]
K(key) == <<key>>
W(key) == <<key>> \o Wildcard
A(segs) == Join(segs)

\* models.py
Invoice ==
    [name |-> "Invoice",
     fields |-> <<F("id", A(<<K("root"), K("id")>>), "str"),
                  F("total_amount", A(<<K("root"), K("total_amount")>>), "float"),
                  F("latitude", A(<<K("root"), K("geo"), K("latitude")>>), "float"),
                  F("longitude", A(<<K("root"), K("geo"), K("longitude")>>), "float")>>]

InvoiceItem ==
    [name |-> "InvoiceItem",
     fields |-> <<F("invoice_id", A(<<K("root"), K("id")>>), "str"),
                  F("id", A(<<K("root"), W("invoice_items"), K("id")>>), "str"),
                  F("sku", A(<<K("root"), W("invoice_items"), K("sku")>>), "str"),
                  F("description", A(<<K("root"), W("invoice_items"), K("description")>>), "str"),
                  F("quantity", A(<<K("root"), W("invoice_items"), K("quantity")>>), "int"),
                  F("unit_price", A(<<K("root"), W("invoice_items"), K("unit_price")>>), "float")>>]

InvoiceItemTransaction ==
    [name |-> "InvoiceItemTransaction",
     fields |-> <<F("tx_id", A(<<K("root"), W("invoice_items"), W("transactions"), K("tx_id")>>), "str"),
                  F("invoice_item_id", A(<<K("root"), W("invoice_items"), K("id")>>), "str"),
                  F("invoice_id", A(<<K("root"), K("id")>>), "str"),
                  F("amount", A(<<K("root"), W("invoice_items"), W("transactions"), K("amount")>>), "float"),
                  F("payment_method",
                    A(<<K("root"), W("invoice_items"), W("transactions"), K("payment_method")>>), "str"),
                  F("timestamp",
                    A(<<K("root"), W("invoice_items"), W("transactions"), K("timestamp")>>), "datetime")>>]

\* test_spec_based.py: data_models = [Invoice, InvoiceItem, InvoiceItemTransaction]
InvoiceModels == <<Invoice, InvoiceItem, InvoiceItemTransaction>>

\* A second schema set of the same shape with short records: a root table, two
\* tables attached under items[*] (Item also declares a node-local field, alias
\* equal to the field name), and a table under items[*].transactions[*].
Order ==
    [name |-> "Order",
     fields |-> <<F("id", A(<<K("root"), K("id")>>), "str")>>]

Item ==
    [name |-> "Item",
     fields |-> <<F("order_id", A(<<K("root"), K("id")>>), "str"),
                  F("id", A(<<K("root"), W("items"), K("id")>>), "str"),
                  Opt("sku", K("sku"), "str")>>]

ItemTag ==
    [name |-> "ItemTag",
     fields |-> <<F("id", A(<<K("root"), W("items"), K("id")>>), "str")>>]

Tx ==
    [name |-> "Tx",
     fields |-> <<F("tx_id", A(<<K("root"), W("items"), W("transactions"), K("tx_id")>>), "str"),
                  F("item_id", A(<<K("root"), W("items"), K("id")>>), "str"),
                  F("order_id", A(<<K("root"), K("id")>>), "str")>>]

OrderModels == <<Order, Item, ItemTag, Tx>>

\* Schema sets the constructor rejects: a field declared without alias, and a
\* model class without fields, each after a model class that compiles.
Unaliased ==
    [name |-> "Unaliased",
     fields |-> <<F("id", A(<<K("root"), W("items"), K("id")>>), "str"),
                  F("note", NoAlias, "str")>>]

Empty == [name |-> "Empty", fields |-> <<>>]

\* Tables under items[*].transactions[*] with aliases into arrays that do
\* not enclose a transaction: notes[*] of the item and tags[*] of the root.
TxNote ==
    [name |-> "TxNote",
     fields |-> <<F("tx_id", A(<<K("root"), W("items"), W("transactions"), K("tx_id")>>), "str"),
                  Opt("note", A(<<K("root"), W("items"), W("notes"), K("text")>>), "str"),
                  Opt("tag", A(<<K("root"), W("tags"), K("name")>>), "str")>>]

TxLabel ==
    [name |-> "TxLabel",
     fields |-> <<F("tx_id", A(<<K("root"), W("items"), W("transactions"), K("tx_id")>>), "str"),
                  F("label", A(<<K("root"), W("tags"), K("name")>>), "str")>>]

NoteModels == <<TxNote, TxLabel>>

UnaliasedModels == <<Order, Unaliased>>
EmptyModels == <<Order, Empty>>

(***************************************************************************)
(* Spec compilation (JSONParser.__init__).                                  *)
(***************************************************************************)
\* first_base of a segment, and the test applied to every segment at a position
SegBase(seg) == IF Contains(seg, <<LB>>) THEN KeyBase(seg) ELSE seg
SegSameBase(seg, first_base) ==
    IF Contains(seg, <<LB>>) THEN KeyBase(seg) = first_base ELSE seg = first_base

RECURSIVE CommonSegments(_, _, _)
\* The loop of _model_specs_find_deepest_common_path_pattern from position index
\* (0-based) on; path_segments is non-empty.
CommonSegments(path_segments, index, min_length) ==
    IF index >= min_length THEN <<>>
    ELSE LET first_segment == path_segments[1][index + 1]
             first_base == SegBase(first_segment)
         IN IF \A m \in 1..Len(path_segments) :
                   SegSameBase(path_segments[m][index + 1], first_base)
            THEN <<first_segment>> \o CommonSegments(path_segments, index + 1, min_length)
            ELSE <<>>

MinLen(path_segments) ==
    CHOOSE n \in {Len(path_segments[m]) : m \in 1..Len(path_segments)} :
        \A m \in 1..Len(path_segments) : n <= Len(path_segments[m])

\* _model_specs_find_deepest_common_path_pattern; aliases is non-empty (min() of
\* an empty list raises).
FindDeepestCommonPathPattern(aliases) ==
    LET path_segments == [m \in 1..Len(aliases) |-> Split(AliasPrefix(aliases[m]), Dot)]
        common_segments == CommonSegments(path_segments, 0, MinLen(path_segments))
    IN IF Len(common_segments) > 0 THEN Join(common_segments) ELSE Root

RECURSIVE MaxByDotsLast(_, _)
\* The maximum with the last of the maximal elements winning.
MaxByDotsLast(paths, best) ==
    IF Len(paths) = 0 THEN best
    ELSE MaxByDotsLast(Tail(paths),
                       IF Count(paths[1], Dot) >= Count(best, Dot) THEN paths[1] ELSE best)

RECURSIVE MaxByDots(_, _)
\* max(paths, key=lambda p: p.count(".")) with best the maximum so far: the
\* first of the maximal elements wins.
MaxByDots(paths, best) ==
    IF Len(paths) = 0 THEN best
    ELSE MaxByDots(Tail(paths),
                   IF Count(paths[1], Dot) > Count(best, Dot) THEN paths[1] ELSE best)

RECURSIVE MinByDots(_, _)
MinByDots(paths, best) ==
    IF Len(paths) = 0 THEN best
    ELSE MinByDots(Tail(paths),
                   IF Count(paths[1], Dot) < Count(best, Dot) THEN paths[1] ELSE best)

\* _model_specs_find_deepest_wildcard_path with min in place of max
FindShallowestWildcardPath(aliases) ==
    LET paths == [m \in 1..Len(aliases) |-> AliasPrefix(aliases[m])]
    IN MinByDots(Tail(paths), paths[1])

\* _model_specs_find_deepest_wildcard_path; aliases is non-empty.
FindDeepestWildcardPath(aliases) ==
    LET paths == [m \in 1..Len(aliases) |-> AliasPrefix(aliases[m])]
    IN MaxByDots(Tail(paths), paths[1])

\* fields.append((field_name, alias, has_wildcard))
FieldsOf(model_cls) ==
    [m \in 1..Len(model_cls.fields) |->
        [field_name |-> model_cls.fields[m].name,
         alias |-> model_cls.fields[m].alias,
         has_wildcard |-> Contains(model_cls.fields[m].alias, Wildcard)]]

\* The aliases of the fields selected by keep, in field order.
AliasesOf(fields, wildcard_only) ==
    LET sel == SelectSeq(fields, LAMBDA f : f.has_wildcard \/ ~wildcard_only)
    IN [m \in 1..Len(sel) |-> sel[m].alias]

\* The body of the loop of _model_specs_create_specs_and_adapters for one model
\* class: the json_path_pattern of its ModelSpec.
JsonPathPattern(model_cls) ==
    LET fields == FieldsOf(model_cls)
        wildcard_aliases == AliasesOf(fields, TRUE)
    IN IF Len(wildcard_aliases) > 0
       THEN FindDeepestWildcardPath(wildcard_aliases)
       ELSE FindDeepestCommonPathPattern(AliasesOf(fields, FALSE))

\* An alias test that never fires.
AliasNeverNone(alias) == FALSE

\* alias is None
AliasIsNone(alias) == alias = NoAlias

\* Whether the loop body raises ValueError for a model class: a field without
\* alias (line 80), or no field at all (min() of an empty sequence, line 51).
ModelRaises(model_cls) ==
    \/ \E f \in 1..Len(model_cls.fields) : AliasIsNone(model_cls.fields[f].alias)
    \/ Len(model_cls.fields) = 0

\* Whether __init__ raises
CreateRaises(data_models) ==
    \E m \in 1..Len(data_models) : ModelRaises(data_models[m])

\* The model classes the loop of line 73 finished before it raised (all of
\* them when it did not raise).
CompiledModels(data_models) ==
    LET bad == {m \in 1..Len(data_models) : ModelRaises(data_models[m])}
    IN IF bad = {} THEN data_models
       ELSE SubSeq(data_models, 1, (CHOOSE m \in bad : \A n \in bad : m <= n) - 1)

\* self.model_specs, in insertion order
ModelSpecsOf(data_models) ==
    LET done == CompiledModels(data_models)
    IN [m \in 1..Len(done) |->
           [model_name |-> done[m].name,
            data_model |-> done[m],
            json_path_pattern |-> JsonPathPattern(done[m])]]

(***************************************************************************)
(* The parser object and the position of the running call.                  *)
(***************************************************************************)
VARIABLES
    model_specs,        \* self.model_specs: ModelSpecs in insertion order
    model_fields_cache, \* self.model_fields_cache: model name -> fields
    results,            \* self.results: model name -> rows
    errors,             \* self.errors
    indexed_cache,      \* self.indexed_cache: path -> value
    stack,              \* the activations of _parsing_walk: [obj, path, i]
    call,               \* the running parse / parse_batch call, or idle
    log,                \* history: what each extraction of the running call appended
    hist,               \* history: the finished calls and what they handed back
    env,                \* the session explored: documents offered, walks left
    probe               \* the last direct call of a helper: its arguments and result

vars == <<model_specs, model_fields_cache, results, errors, indexed_cache,
          stack, call, log, hist, env, probe>>

(***************************************************************************)
(* The validator (pydantic TypeAdapter of the data model): every field is   *)
(* looked up by its name; a required field rejects None, a field of type    *)
(* str or datetime takes a string, float and int take a number.             *)
(***************************************************************************)
Accepts(field, v) ==
    CASE v.t = "null" -> ~field.required
      [] v.t = "str" -> field.type \in {"str", "datetime"}
      [] v.t = "num" -> field.type \in {"float", "int"}
      [] OTHER -> FALSE

\* e.errors(): the rejected fields, in field order
ValidationErrors(data_model, data) ==
    LET bad == SelectSeq(data_model.fields, LAMBDA f : ~Accepts(f, data[f.name]))
    IN [m \in 1..Len(bad) |-> bad[m].name]

\* adapter.validate_python(data).model_dump() of an accepted record: a
\* datetime field holds the parsed datetime, every other field its input.
ModelDump(data_model, data) ==
    [fn \in DOMAIN data |->
        LET f == CHOOSE f \in {data_model.fields[m] : m \in 1..Len(data_model.fields)} :
                     f.name = fn
        IN IF f.type = "datetime" /\ data[fn].t = "str"
           THEN [t |-> "datetime", v |-> data[fn].v]
           ELSE data[fn]]

(***************************************************************************)
(* _parsing_build_model_data                                                *)
(***************************************************************************)
ResolvedAlias(field, path) ==
    IF field.has_wildcard THEN ReplaceWildcardWithIndex(field.alias, path)
    ELSE field.alias

BuildModelData(path, spec) ==
    LET fields == model_fields_cache[spec.model_name]
    IN [fn \in {fields[m].field_name : m \in 1..Len(fields)} |->
           LET field == fields[CHOOSE m \in 1..Len(fields) :
                                  /\ fields[m].field_name = fn
                                  /\ \A n \in (m + 1)..Len(fields) :
                                         fields[n].field_name # fn]
           IN Lookup(indexed_cache, ResolvedAlias(field, path))]

(***************************************************************************)
(* _parsing_extract_models_at_path: the loop over self.model_specs from     *)
(* position m on; st is [results, errors].                                  *)
(***************************************************************************)
\* The step with the row inserted at the front: results[model_name].insert(0, row)
ExtractOneInFront(st, path, spec) ==
    LET data == BuildModelData(path, spec)
        bad == ValidationErrors(spec.data_model, data)
    IN IF Len(bad) = 0
       THEN [st EXCEPT !.results[spec.model_name] =
                           <<ModelDump(spec.data_model, data)>> \o @]
       ELSE [st EXCEPT !.errors =
                           Append(@, [path |-> path, model |-> spec.model_name,
                                      errors |-> bad])]

ExtractOne(st, path, spec) ==
    LET data == BuildModelData(path, spec)
        bad == ValidationErrors(spec.data_model, data)
    IN IF Len(bad) = 0
       THEN [st EXCEPT !.results[spec.model_name] =
                           Append(@, ModelDump(spec.data_model, data))]
       ELSE [st EXCEPT !.errors =
                           Append(@, [path |-> path, model |-> spec.model_name,
                                      errors |-> bad])]

RECURSIVE ExtractLoop(_, _, _)
ExtractLoop(st, path, m) ==
    IF m > Len(model_specs) THEN st
    ELSE ExtractLoop(IF PathMatches(path, model_specs[m].json_path_pattern)
                     THEN ExtractOne(st, path, model_specs[m])
                     ELSE st,
                     path, m + 1)

RECURSIVE ExtractLoopUnguarded(_, _, _)
\* The loop without the test of _parsing_path_matches.
ExtractLoopUnguarded(st, path, m) ==
    IF m > Len(model_specs) THEN st
    ELSE ExtractLoopUnguarded(ExtractOne(st, path, model_specs[m]), path, m + 1)

ExtractAllModelsAtPath(st, path) == ExtractLoopUnguarded(st, path, 1)

RECURSIVE ExtractLoopUntilRejected(_, _, _)
\* The loop with the try around the whole for statement: the first rejected
\* record ends it.
ExtractLoopUntilRejected(st, path, m) ==
    IF m > Len(model_specs) THEN st
    ELSE IF PathMatches(path, model_specs[m].json_path_pattern)
    THEN LET st1 == ExtractOne(st, path, model_specs[m])
         IN IF Len(st1.errors) > Len(st.errors) THEN st1
            ELSE ExtractLoopUntilRejected(st1, path, m + 1)
    ELSE ExtractLoopUntilRejected(st, path, m + 1)

ExtractModelsUntilRejected(st, path) == ExtractLoopUntilRejected(st, path, 1)

ExtractModelsAtPath(st, path) == ExtractLoop(st, path, 1)

(***************************************************************************)
(* Documents.                                                               *)
(***************************************************************************)
\* json_examples/nestedjson.py
NestedTx(tx_id, amount, payment_method, timestamp) ==
    Dict(<< <<"tx_id", Str(<<tx_id>>)>>, <<"amount", Num(<<amount>>)>>,
            <<"payment_method", Str(<<payment_method>>)>>,
            <<"timestamp", Str(<<timestamp>>)>> >>)

NestedItem(id, sku, description, quantity, unit_price, transactions) ==
    Dict(<< <<"id", Str(<<id>>)>>, <<"sku", Str(<<sku>>)>>,
            <<"description", Str(<<description>>)>>,
            <<"quantity", Num(<<quantity>>)>>,
            <<"unit_price", Num(<<unit_price>>)>>,
            <<"transactions", List(transactions)>> >>)

NESTED_JSON ==
    Dict(<< <<"id", Str(<<"INV-2025-12345">>)>>,
            <<"total_amount", Num(<<"1567.89">>)>>,
            <<"geo", Dict(<< <<"latitude", Num(<<"40.7128">>)>>,
                             <<"longitude", Num(<<"-74.0060">>)>> >>)>>,
            <<"invoice_items",
              List(<<NestedItem("ITEM-001", "LAPTOP-001", "Dell XPS 13", "2", "999.99",
                        <<NestedTx("TX-001A", "999.99", "credit_card", "2025-12-01T10:30:00Z"),
                          NestedTx("TX-001B", "-50.00", "refund", "2025-12-02T14:15:00Z")>>),
                     NestedItem("ITEM-002", "MOUSE-101", "Logitech MX Master 3", "5", "79.99",
                        <<NestedTx("TX-002A", "399.95", "paypal", "2025-12-01T11:45:00Z")>>),
                     NestedItem("ITEM-003", "DOCK-202", "USB-C Docking Station", "1", "167.95",
                        <<NestedTx("TX-003A", "167.95", "credit_card", "2025-12-01T12:20:00Z")>>)>>)>> >>)

\* Order documents.  A shape gives the number of transactions of each item; a
\* defect leaves out one id key: that of the root ("root"), of item i ("item")
\* or of transaction j of item i ("tx").
Absent == [t |-> "absent"]
NoDefect == [kind |-> "none", i |-> 0, j |-> 0]
RootId == Str(<<"ORD", "-", "1">>)
ItemId(i) == Str(<<"ITEM", "-">> \o IntStr(i))
TxId(i, j) == Str(<<"TX", "-">> \o IntStr(i) \o <<"-">> \o IntStr(j))

Pair(key, value) == IF value = Absent THEN <<>> ELSE <<<<key, value>>>>

TxDoc(i, j, defect) ==
    Dict(Pair("tx_id", IF defect = [kind |-> "tx", i |-> i, j |-> j]
                       THEN Absent ELSE TxId(i, j)))

ItemDoc(i, ntx, with_tx, defect) ==
    Dict(Pair("id", IF defect = [kind |-> "item", i |-> i, j |-> 0]
                    THEN Absent ELSE ItemId(i))
         \o Pair("sku", Str(<<"SKU", "-">> \o IntStr(i)))
         \o Pair("transactions",
                 IF with_tx THEN List([j \in 1..ntx |-> TxDoc(i, j - 1, defect)])
                 ELSE Absent))

ItemsList(shape, with_tx, defect) ==
    List([i \in 1..Len(shape) |-> ItemDoc(i - 1, shape[i], with_tx, defect)])

OrderDoc(id_first, defect, items) ==
    LET id == Pair("id", IF defect.kind = "root" THEN Absent ELSE RootId)
        its == Pair("items", items)
    IN Dict(IF id_first THEN id \o its ELSE its \o id)

Shapes(max_items, max_tx) == UNION {[1..n -> 0..max_tx] : n \in 0..max_items}

Defects(shape) ==
    {NoDefect, [kind |-> "root", i |-> 0, j |-> 0]}
    \cup {[kind |-> "item", i |-> i - 1, j |-> 0] : i \in 1..Len(shape)}
    \cup UNION {{[kind |-> "tx", i |-> i - 1, j |-> j - 1] : j \in 1..shape[i]} :
                   i \in 1..Len(shape)}

RootDefect == [kind |-> "root", i |-> 0, j |-> 0]

\* A long array: indices of two digits.
LongDoc == OrderDoc(TRUE, NoDefect, ItemsList([i \in 1..LongLen |-> 0], FALSE, NoDefect))

\* The documents offered to a single parse: every shape within the bounds with
\* at most one defect and either key order at the root; items absent or null;
\* the long array; a top-level array; a top-level scalar.
SingleDocs ==
    UNION {{OrderDoc(id_first, defect, ItemsList(shape, TRUE, defect)) :
                id_first \in BOOLEAN, defect \in Defects(shape)} :
              shape \in Shapes(MaxItems, MaxTx)}
    \cup {OrderDoc(TRUE, defect, items) :
              defect \in {NoDefect, RootDefect}, items \in {Absent, None}}
    \cup {LongDoc,
          List(<<OrderDoc(TRUE, NoDefect, ItemsList(<<0>>, TRUE, NoDefect))>>),
          RootId}

\* The documents offered to the calls of a session (several parse and
\* parse_batch calls on one parser): no item or one item, without transactions.
SessionDocs ==
    UNION {{OrderDoc(TRUE, defect, ItemsList(shape, FALSE, defect)) :
                defect \in Defects(shape)} :
              shape \in {<<>>, <<0>>}}
    \cup {OrderDoc(TRUE, defect, Absent) : defect \in {NoDefect, RootDefect}}

\* Documents with a tags array at the root and, in every item, a notes array
\* next to the transactions.
NoteItemDoc(i, ntx) ==
    Dict(<< <<"id", ItemId(i)>>,
            <<"notes", List(<<Dict(<< <<"text", Str(<<"NOTE", "-">> \o IntStr(i))>> >>)>>)>>,
            <<"transactions", List([j \in 1..ntx |-> TxDoc(i, j - 1, NoDefect)])>> >>)

NoteDoc(shape, tags_first) ==
    LET tags == <<<<"tags", List(<<Dict(<< <<"name", Str(<<"TAG", "-", "0">>)>> >>)>>)>>>>
        its == <<<<"items", List([i \in 1..Len(shape) |-> NoteItemDoc(i - 1, shape[i])])>>>>
    IN Dict(IF tags_first THEN tags \o its ELSE its \o tags)

NoteDocs ==
    {NoteDoc(shape, tags_first) :
        shape \in Shapes(MaxItems, MaxTx), tags_first \in BOOLEAN}

\* The sessions explored: the data models the parser is built with, the
\* documents its caller passes and the number of documents it may still pass.
Envs ==
    {[name |-> "single", walks |-> 1],
     [name |-> "session", walks |-> MaxWalks],
     [name |-> "invoice", walks |-> 1],
     [name |-> "notes", walks |-> 1],
     [name |-> "unaliased", walks |-> 1],
     [name |-> "empty", walks |-> 1]}

DataModels(e) ==
    CASE e.name = "invoice" -> InvoiceModels
      [] e.name = "notes" -> NoteModels
      [] e.name = "unaliased" -> UnaliasedModels
      [] e.name = "empty" -> EmptyModels
      [] OTHER -> OrderModels

Docs(e) ==
    CASE e.name = "single" -> SingleDocs
      [] e.name = "session" -> SessionDocs
      [] e.name = "notes" -> NoteDocs
      [] OTHER -> {NESTED_JSON}

Batches(e) == UNION {[1..n -> Docs(e)] : n \in 0..e.walks}

(***************************************************************************)
(* The state after JSONParser(data_models).                                 *)
(***************************************************************************)
Idle == [kind |-> "idle", docs |-> <<>>, k |-> 0, err0 |-> 0]
NoProbe == [op |-> "none"]
\* The constructor raised: there is no parser object to call.
Raised == [kind |-> "raised", docs |-> <<>>, k |-> 0, err0 |-> 0]
ModelNames == {model_specs[m].model_name : m \in 1..Len(model_specs)}

Init ==
    /\ env \in Envs
    /\ model_specs = ModelSpecsOf(DataModels(env))
    /\ model_fields_cache =
           LET done == CompiledModels(DataModels(env))
           IN [name \in {done[m].name : m \in 1..Len(done)} |->
                  FieldsOf(CHOOSE c \in {done[m] : m \in 1..Len(done)} : c.name = name)]
    /\ results = EmptyDict
    /\ errors = <<>>
    /\ indexed_cache = EmptyDict
    /\ stack = <<>>
    /\ call = IF CreateRaises(DataModels(env)) THEN Raised ELSE Idle
    /\ log = <<>>
    /\ hist = <<>>
    /\ probe = NoProbe

(***************************************************************************)
(* _parsing_walk, one activation per stack frame; i counts the children the *)
(* loop of the frame has handled.                                           *)
(***************************************************************************)
Top == stack[Len(stack)]
Frame(obj, path) == [obj |-> obj, path |-> path, i |-> 0]
\* A walker that would descend into mappings only.
IsMappingOnly(v) == IsDict(v)
\* isinstance(value, (dict, list))
IsContainer(v) == IsDict(v) \/ IsList(v)
NumChildren(obj) ==
    IF IsDict(obj) THEN Len(obj.kv) ELSE IF IsList(obj) THEN Len(obj.items) ELSE 0

\* field_path = f"{path}.{key}" and item_path = f"{path}[{index}]"
FieldPath(path, key) == path \o <<Dot, key>>
ItemPath(path, index) == path \o <<LB>> \o IntStr(index) \o <<RB>>

ChildPath(frame) ==
    IF IsDict(frame.obj) THEN FieldPath(frame.path, frame.obj.kv[frame.i + 1][1])
    ELSE ItemPath(frame.path, frame.i)

ChildValue(frame) ==
    IF IsDict(frame.obj) THEN frame.obj.kv[frame.i + 1][2]
    ELSE frame.obj.items[frame.i + 1]

\* What an extraction step at path `at` appended, read off the change of
\* results and errors.
Appended(at, res0, res1, err0, err1) ==
    LET rows(m) ==
            LET name == model_specs[m].model_name
            IN [n \in 1..(Len(res1[name]) - Len(res0[name])) |->
                   [walk |-> call.k, at |-> at, model |-> name, ok |-> TRUE,
                    out |-> res1[name][Len(res0[name]) + n]]]
        errs == [n \in 1..(Len(err1) - Len(err0)) |->
                   [walk |-> call.k, at |-> at, model |-> err1[Len(err0) + n].model,
                    ok |-> FALSE, out |-> err1[Len(err0) + n]]]
        upto[m \in 0..Len(model_specs)] == IF m = 0 THEN <<>> ELSE upto[m - 1] \o rows(m)
    IN upto[Len(model_specs)] \o errs

\* One iteration of the loop over obj.items() / enumerate(obj): index the
\* child and, when it is a container, call _parsing_walk on it (line 184 of
\* the callee stores the same value under the same path).
WalkChild ==
    /\ stack # <<>>
    /\ Top.i < NumChildren(Top.obj)
    /\ LET path == ChildPath(Top)
           value == ChildValue(Top)
           advanced == [stack EXCEPT ![Len(stack)].i = @ + 1]
       IN /\ indexed_cache' = Store(indexed_cache, path, value)
          /\ stack' = IF IsContainer(value)
                      THEN Append(advanced, Frame(value, path))
                      ELSE advanced
    /\ UNCHANGED <<model_specs, model_fields_cache, results, errors, call, log, hist, env, probe>>

\* A mapping whose loop is over: self._parsing_extract_models_at_path(path),
\* then the activation returns.
WalkExtract ==
    /\ stack # <<>>
    /\ IsDict(Top.obj)
    /\ Top.i = NumChildren(Top.obj)
    /\ LET st == ExtractModelsAtPath([results |-> results, errors |-> errors], Top.path)
       IN /\ results' = st.results
          /\ errors' = st.errors
          /\ log' = log \o Appended(Top.path, results, st.results, errors, st.errors)
    /\ stack' = SubSeq(stack, 1, Len(stack) - 1)
    /\ UNCHANGED <<model_specs, model_fields_cache, indexed_cache, call, hist, env, probe>>

\* A sequence whose loop is over, or a scalar document: the activation returns.
WalkReturn ==
    /\ stack # <<>>
    /\ ~IsDict(Top.obj)
    /\ Top.i = NumChildren(Top.obj)
    /\ stack' = SubSeq(stack, 1, Len(stack) - 1)
    /\ UNCHANGED <<model_specs, model_fields_cache, results, errors, indexed_cache,
                   call, log, hist, env, probe>>

(***************************************************************************)
(* parse and parse_batch                                                    *)
(***************************************************************************)
\* {model_name: [] for model_name in self.model_specs.keys()}
FreshResults == [name \in ModelNames |-> <<>>]

Finished(outcome) ==
    [kind |-> call.kind, docs |-> call.docs, outcome |-> outcome,
     results |-> results, errors |-> errors, err0 |-> call.err0, log |-> log]

\* parse(json_obj) up to the first statement of _parsing_walk(json_obj)
Parse(doc) ==
    /\ call.kind = "idle"
    /\ env.walks >= 1
    /\ indexed_cache' = Store(EmptyDict, Root, doc)
    /\ results' = FreshResults
    /\ stack' = <<Frame(doc, Root)>>
    /\ call' = [kind |-> "parse", docs |-> <<doc>>, k |-> 1, err0 |-> Len(errors)]
    /\ log' = <<>>
    /\ env' = [env EXCEPT !.walks = @ - 1]
    /\ UNCHANGED <<model_specs, model_fields_cache, errors, hist, probe>>

\* The end of parse: raise ValueError(self.errors) or return self.results.
ParseReturn ==
    /\ call.kind = "parse"
    /\ stack = <<>>
    /\ hist' = Append(hist, Finished(IF errors # <<>> THEN "raise" ELSE "return"))
    /\ call' = [call EXCEPT !.kind = "idle"]
    /\ UNCHANGED <<model_specs, model_fields_cache, results, errors, indexed_cache,
                   stack, log, env, probe>>

\* parse_batch(json_objs) up to its loop
ParseBatch(docs) ==
    /\ call.kind = "idle"
    /\ env.walks >= 1
    /\ Len(docs) <= env.walks
    /\ results' = FreshResults
    /\ call' = [kind |-> "batch", docs |-> docs, k |-> 0, err0 |-> Len(errors)]
    /\ log' = <<>>
    /\ env' = [env EXCEPT !.walks = IF Len(docs) = 0 THEN @ - 1 ELSE @ - Len(docs)]
    /\ UNCHANGED <<model_specs, model_fields_cache, errors, indexed_cache, stack, hist,
                   probe>>

\* One iteration of the loop of parse_batch: self._parsing_walk(json_obj)
BatchNext ==
    /\ call.kind = "batch"
    /\ stack = <<>>
    /\ call.k < Len(call.docs)
    /\ indexed_cache' = Store(indexed_cache, Root, call.docs[call.k + 1])
    /\ stack' = <<Frame(call.docs[call.k + 1], Root)>>
    /\ call' = [call EXCEPT !.k = @ + 1]
    /\ UNCHANGED <<model_specs, model_fields_cache, results, errors, log, hist, env, probe>>

\* The end of parse_batch: return self.results.
BatchReturn ==
    /\ call.kind = "batch"
    /\ stack = <<>>
    /\ call.k = Len(call.docs)
    /\ hist' = Append(hist, Finished("return"))
    /\ call' = [call EXCEPT !.kind = "idle"]
    /\ UNCHANGED <<model_specs, model_fields_cache, results, errors, indexed_cache,
                   stack, log, env, probe>>

Next ==
    \/ \E doc \in Docs(env) : Parse(doc)
    \/ \E docs \in Batches(env) : ParseBatch(docs)
    \/ WalkChild
    \/ WalkExtract
    \/ WalkReturn
    \/ ParseReturn
    \/ BatchNext
    \/ BatchReturn

Spec == Init /\ [][Next]_vars

(***************************************************************************)
(* Reading a document directly, for the statements below.                   *)
(***************************************************************************)
RECURSIVE ParseInt(_)
ParseInt(digits) ==
    IF Len(digits) = 0 THEN 0
    ELSE 10 * ParseInt(ButLast(digits))
         + (CHOOSE d \in 0..9 : DigitTokens[d + 1] = digits[Len(digits)])

RECURSIVE StepInto(_, _)
\* The value reached from v along the rest of a concrete path, Absent when
\* the document has no such node.
StepInto(v, toks) ==
    IF Len(toks) = 0 THEN v
    ELSE IF toks[1] = Dot /\ Len(toks) >= 2
    THEN IF IsDict(v) /\ HasKey(v, toks[2])
         THEN StepInto(DictGet(v, toks[2]), Drop(toks, 2))
         ELSE Absent
    ELSE IF toks[1] = LB
    THEN LET run == DigitRun(Tail(toks))
         IN IF /\ Len(run) > 0
               /\ IsList(v)
               /\ ParseInt(run) < Len(v.items)
               /\ Len(toks) >= Len(run) + 2
            THEN StepInto(v.items[ParseInt(run) + 1], Drop(toks, Len(run) + 2))
            ELSE Absent
    ELSE Absent

ValueAt(doc, path) ==
    IF Len(path) > 0 /\ path[1] = "root" THEN StepInto(doc, Tail(path)) ELSE Absent

RECURSIVE MappingPaths(_, _)
\* The concrete paths of the mapping nodes of the subtree v at path.
MappingPaths(v, path) ==
    IF IsDict(v)
    THEN {path} \cup UNION {MappingPaths(v.kv[n][2], FieldPath(path, v.kv[n][1])) :
                               n \in 1..Len(v.kv)}
    ELSE IF IsList(v)
    THEN UNION {MappingPaths(v.items[n], ItemPath(path, n - 1)) : n \in 1..Len(v.items)}
    ELSE {}

RECURSIVE Normalize(_)
\* A concrete path with every [idx] replaced by [*].
Normalize(path) ==
    IF Len(path) = 0 THEN <<>>
    ELSE LET run == DigitRun(Tail(path))
         IN IF path[1] = LB /\ Len(run) > 0
               /\ Len(path) >= Len(run) + 2 /\ path[Len(run) + 2] = RB
            THEN Wildcard \o Normalize(Drop(path, Len(run) + 2))
            ELSE <<path[1]>> \o Normalize(Tail(path))

PatternOf(name) ==
    model_specs[CHOOSE m \in 1..Len(model_specs) : model_specs[m].model_name = name]
        .json_path_pattern

\* The walker stands at a mapping whose children are all indexed: the next
\* step is the extraction at Top.path.
AtExtract == stack # <<>> /\ IsDict(Top.obj) /\ Top.i = NumChildren(Top.obj)

\* The document being walked.
CurDoc == call.docs[call.k]

\* The entries of a log that are rows of table name / that are rejections.
RowsOf(lg, name) ==
    LET sel == SelectSeq(lg, LAMBDA e : e.ok /\ e.model = name)
    IN [n \in 1..Len(sel) |-> sel[n].out]
RejectedOf(lg) ==
    LET sel == SelectSeq(lg, LAMBDA e : ~e.ok)
    IN [n \in 1..Len(sel) |-> sel[n].out]

\* The errors appended since the running (or last) call began.
NewErrors == SubSeq(errors, call.err0 + 1, Len(errors))

(***************************************************************************)
(* C1.  Every row a call appended to the results of a table was appended by *)
(* the extraction at a mapping node of the walked document whose concrete   *)
(* path, with every [idx] replaced by [*], is the table's attachment        *)
(* pattern; the rows of each table are exactly the rows so appended, in     *)
(* order (none comes from a sequence node, a scalar or any other step).     *)
(***************************************************************************)
C1_RowsOnlyAtMatchingMappings ==
    /\ \A n \in 1..Len(log) :
           log[n].ok =>
               /\ Normalize(log[n].at) = PatternOf(log[n].model)
               /\ PathMatches(log[n].at, PatternOf(log[n].model))
               /\ IsDict(ValueAt(call.docs[log[n].walk], log[n].at))
    /\ \A name \in DOMAIN results : results[name] = RowsOf(log, name)

\* A row of the table attached under items[*].transactions[*] was appended.
C1_Witness ==
    \E n \in 1..Len(log) :
        /\ log[n].ok
        /\ log[n].model = "Tx"
        /\ Len(results["Tx"]) > 0

(***************************************************************************)
(* C2.  parse(NESTED_JSON) on a parser built from Invoice, InvoiceItem and  *)
(* InvoiceItemTransaction (one root object, three items whose transactions  *)
(* arrays have sizes 2, 1, 1) returns 1 Invoice row, 3 InvoiceItem rows and *)
(* 4 InvoiceItemTransaction rows and no error; every transaction row's      *)
(* invoice_item_id is the id of the item that contains the transaction, and *)
(* every item and transaction row's invoice_id is the root id.              *)
(***************************************************************************)
NestedItems == DictGet(NESTED_JSON, "invoice_items").items
NestedTransactions(i) == DictGet(NestedItems[i], "transactions").items

C2_NestedInvoiceTables ==
    \A n \in 1..Len(hist) :
        (env.name = "invoice" /\ hist[n].kind = "parse" /\ hist[n].docs = <<NESTED_JSON>>) =>
            LET r == hist[n].results
            IN /\ [i \in 1..Len(NestedItems) |-> Len(NestedTransactions(i))] = <<2, 1, 1>>
               /\ hist[n].outcome = "return"
               /\ hist[n].errors = <<>>
               /\ Len(r["Invoice"]) = 1
               /\ Len(r["InvoiceItem"]) = 3
               /\ Len(r["InvoiceItemTransaction"]) = 4
               /\ r["Invoice"][1].id = DictGet(NESTED_JSON, "id")
               /\ \A i \in 1..3 :
                      /\ r["InvoiceItem"][i].id = DictGet(NestedItems[i], "id")
                      /\ r["InvoiceItem"][i].invoice_id = DictGet(NESTED_JSON, "id")
               /\ \A t \in 1..4 :
                      LET row == r["InvoiceItemTransaction"][t]
                      IN /\ row.invoice_id = DictGet(NESTED_JSON, "id")
                         /\ \E i \in 1..Len(NestedItems) :
                                /\ \E j \in 1..Len(NestedTransactions(i)) :
                                       DictGet(NestedTransactions(i)[j], "tx_id") = row.tx_id
                                /\ row.invoice_item_id = DictGet(NestedItems[i], "id")

\* parse(NESTED_JSON) has returned its tables.
C2_Witness ==
    /\ env.name = "invoice"
    /\ Len(hist) > 0
    /\ hist[1].kind = "parse"
    /\ hist[1].docs = <<NESTED_JSON>>
    /\ Len(hist[1].results["InvoiceItemTransaction"]) = 4

(***************************************************************************)
(* C3.  Isolation.  An extraction step at a mapping node treats every table *)
(* on its own: a table whose pattern matches the node and whose record the  *)
(* validator accepts gets that row appended, one whose record is rejected   *)
(* gets exactly one error entry carrying the node's path and the table's    *)
(* name, and nothing else changes, whatever happened to the other tables.   *)
(* And once a document is walked, every (table, mapping node) pair whose    *)
(* path matches the table's pattern has been extracted exactly once, the    *)
(* rejected ones being exactly the errors the call appended.                *)
(***************************************************************************)
\* The walks of the running (or last) call that are over.
WalksDone == {w \in 1..call.k : w < call.k \/ stack = <<>>}

C3_Accounted ==
    /\ RejectedOf(log) = NewErrors
    /\ \A n \in 1..Len(log) : ~log[n].ok =>
           log[n].out.path = log[n].at /\ log[n].out.model = log[n].model
    /\ \A w \in WalksDone :
           \A at \in MappingPaths(call.docs[w], Root) :
               \A m \in 1..Len(model_specs) :
                   PathMatches(at, model_specs[m].json_path_pattern) =>
                       Cardinality({n \in 1..Len(log) :
                                       /\ log[n].walk = w
                                       /\ log[n].at = at
                                       /\ log[n].model = model_specs[m].model_name}) = 1

C3_Step ==
    AtExtract =>
        LET rejected == {m \in 1..Len(model_specs) :
                            /\ PathMatches(Top.path, model_specs[m].json_path_pattern)
                            /\ ValidationErrors(model_specs[m].data_model,
                                                BuildModelData(Top.path, model_specs[m])) # <<>>}
            new == SubSeq(errors', Len(errors) + 1, Len(errors'))
        IN /\ SubSeq(errors', 1, Len(errors)) = errors
           /\ Len(new) = Cardinality(rejected)
           /\ \A m \in 1..Len(model_specs) :
                  LET spec == model_specs[m]
                      data == BuildModelData(Top.path, spec)
                  IN /\ results'[spec.model_name] =
                            IF m \notin rejected
                               /\ PathMatches(Top.path, spec.json_path_pattern)
                            THEN Append(results[spec.model_name],
                                        ModelDump(spec.data_model, data))
                            ELSE results[spec.model_name]
                     /\ Cardinality({n \in 1..Len(new) :
                                        new[n] = [path |-> Top.path,
                                                  model |-> spec.model_name,
                                                  errors |-> ValidationErrors(spec.data_model, data)]})
                            = IF m \in rejected THEN 1 ELSE 0

C3_Isolation == [](C3_Accounted) /\ [][C3_Step]_vars

\* A finished walk in which a table was rejected at a node, a later table was
\* extracted at that same node, and a later node was extracted as well.
C3_Witness ==
    /\ stack = <<>>
    /\ \E a, b, c \in 1..Len(log) :
           /\ ~log[a].ok /\ log[b].ok /\ log[c].ok
           /\ log[a].at = log[b].at
           /\ log[a].model = "Item" /\ log[b].model = "ItemTag"
           /\ a < c /\ log[c].at # log[a].at
    /\ Len(NewErrors) > 0
    /\ Len(results["ItemTag"]) > 1

(***************************************************************************)
(* C4.  Every finished call in which some record was rejected has returned  *)
(* (handing back the rows and the errors), not raised.                      *)
(***************************************************************************)
C4_ReturnsResultsAndErrors ==
    \A n \in 1..Len(hist) :
        Len(RejectedOf(hist[n].log)) > 0 => hist[n].outcome = "return"

(***************************************************************************)
(* C5.  While document k of a batch (the first call on a new parser) is     *)
(* walked, every lookup of a resolved alias path an extraction makes        *)
(* returns the value at that path in document k, or None.                   *)
(***************************************************************************)
C5_NoIndexLeakInBatch ==
    (call.kind = "batch" /\ hist = <<>> /\ AtExtract) =>
        \A m \in 1..Len(model_specs) :
            PathMatches(Top.path, model_specs[m].json_path_pattern) =>
                LET fields == model_fields_cache[model_specs[m].model_name]
                IN \A f \in 1..Len(fields) :
                       LET resolved == ResolvedAlias(fields[f], Top.path)
                           v == Lookup(indexed_cache, resolved)
                       IN v = None \/ v = ValueAt(CurDoc, resolved)

(***************************************************************************)
(* C6.  The error list a finished call leaves holds exactly the errors of   *)
(* the records rejected during that call.                                   *)
(***************************************************************************)
C6_ErrorsScopedToCall ==
    \A n \in 1..Len(hist) : hist[n].errors = RejectedOf(hist[n].log)

(***************************************************************************)
(* C7.  Determinism: two finished calls of the same kind on the same        *)
(* documents left the same results and the same error list.                 *)
(***************************************************************************)
C7_Deterministic ==
    \A a, b \in 1..Len(hist) :
        (hist[a].kind = hist[b].kind /\ hist[a].docs = hist[b].docs) =>
            /\ hist[a].results = hist[b].results
            /\ hist[a].errors = hist[b].errors
            /\ hist[a].outcome = hist[b].outcome

(***************************************************************************)
(* C8.  For a table whose attachment pattern lies under root.items[*]: no   *)
(* extraction of that table happens in the walk of a document whose key     *)
(* items is absent, maps to null or maps to an empty array; and a call all  *)
(* of whose documents are such has appended no row and no error for it.     *)
(***************************************************************************)
ItemsPattern == FieldPath(Root, "items") \o Wildcard

ItemsEmpty(doc) ==
    /\ IsDict(doc)
    /\ \/ ~HasKey(doc, "items")
       \/ DictGet(doc, "items") = None
       \/ DictGet(doc, "items") = List(<<>>)

C8_EmptyItemsNoRowsNoErrors ==
    \A m \in 1..Len(model_specs) :
        StartsWith(model_specs[m].json_path_pattern, ItemsPattern) =>
            LET name == model_specs[m].model_name
            IN /\ \A n \in 1..Len(log) :
                      log[n].model = name => ~ItemsEmpty(call.docs[log[n].walk])
               /\ (\A w \in 1..call.k : ItemsEmpty(call.docs[w])) =>
                      /\ name \in DOMAIN results => results[name] = <<>>
                      /\ \A n \in 1..Len(NewErrors) : NewErrors[n].model # name

\* A finished parse of a document whose items is null: the root row is there.
C8_Witness ==
    /\ env.name = "single"
    /\ call.kind = "idle"
    /\ Len(hist) > 0
    /\ Len(call.docs) = 1
    /\ IsDict(call.docs[1])
    /\ HasKey(call.docs[1], "items")
    /\ DictGet(call.docs[1], "items") = None
    /\ Len(results["Order"]) = 1
    /\ results["Item"] = <<>>
    /\ results["Tx"] = <<>>

(***************************************************************************)
(* C9.  Alias round trip.  When the walker is about to extract at element i *)
(* of the array under root key a, then for every key b of that element the  *)
(* alias root.a[*].b resolves against the element's path to root.a[i].b,    *)
(* and the index holds under it the value the document stores at            *)
(* root.a[i].b.                                                             *)
(***************************************************************************)
C9_AliasRoundTrip ==
    (AtExtract /\ IsDict(CurDoc)) =>
        \A n \in 1..Len(CurDoc.kv) :
            LET a == CurDoc.kv[n][1]
            IN Normalize(Top.path) = FieldPath(Root, a) \o Wildcard =>
                   \A c \in 1..Len(Top.obj.kv) :
                       LET b == Top.obj.kv[c][1]
                           alias == FieldPath(FieldPath(Root, a) \o Wildcard, b)
                           resolved == ReplaceWildcardWithIndex(alias, Top.path)
                       IN /\ resolved = FieldPath(Top.path, b)
                          /\ Lookup(indexed_cache, resolved) = Top.obj.kv[c][2]
                          /\ ValueAt(CurDoc, resolved) = Top.obj.kv[c][2]

\* The walker is about to extract at element 10 of items.
C9_Witness ==
    /\ AtExtract
    /\ Top.path = ItemPath(FieldPath(Root, "items"), 10)
    /\ HasKey(Top.obj, "id")

(***************************************************************************)
(* C10.  A field whose alias has no wildcard and equals the field's name is *)
(* node-local: the record built at a node holds for it the value of that    *)
(* key in the mapping at the node.                                          *)
(***************************************************************************)
C10_LocalFieldReadFromNode ==
    AtExtract =>
        \A m \in 1..Len(model_specs) :
            PathMatches(Top.path, model_specs[m].json_path_pattern) =>
                LET fields == model_fields_cache[model_specs[m].model_name]
                IN \A f \in 1..Len(fields) :
                       (~fields[f].has_wildcard /\ fields[f].alias = <<fields[f].field_name>>) =>
                           BuildModelData(Top.path, model_specs[m])[fields[f].field_name]
                               = DictGet(Top.obj, fields[f].field_name)

(***************************************************************************)
(* C11.  When a field of some model class has no alias, or a model class    *)
(* has no fields, the constructor has raised: there is no parser, no call   *)
(* ever starts and nothing is extracted.  And every ModelSpec of a parser   *)
(* on which a call runs was compiled from a model class with at least one   *)
(* field, all of them aliased.                                              *)
(***************************************************************************)
Invalid(model_cls) ==
    \/ Len(model_cls.fields) = 0
    \/ \E f \in 1..Len(model_cls.fields) : model_cls.fields[f].alias = NoAlias

C11_InvalidSchemaNeverExtracts ==
    /\ (\E m \in 1..Len(DataModels(env)) : Invalid(DataModels(env)[m])) =>
           /\ call.kind = "raised"
           /\ stack = <<>> /\ hist = <<>> /\ log = <<>>
           /\ results = EmptyDict /\ errors = <<>>
    /\ call.kind # "raised" =>
           /\ Len(model_specs) = Len(DataModels(env))
           /\ \A m \in 1..Len(model_specs) : ~Invalid(model_specs[m].data_model)

\* The constructor raised for a schema set with a model class without fields.
C11_Witness ==
    /\ call.kind = "raised"
    /\ \E m \in 1..Len(DataModels(env)) : Len(DataModels(env)[m].fields) = 0

(***************************************************************************)
(* C12.  An alias is unresolved at path P when, scanning P left to right,   *)
(* some wildcard key of the alias finds no array segment of that key.  For  *)
(* a field with such an alias the record built at P holds None; the record  *)
(* of that (table, node) pair reaches the validator exactly once, which     *)
(* yields the row with None for the field or the error naming the field     *)
(* when it is required; and the walk goes on to every later matching node.  *)
(***************************************************************************)
\* The key bases of the segments of a path that hold an opening bracket.
ArrayKeys(path) ==
    LET segs == SelectSeq(Split(path, Dot), LAMBDA seg : Contains(seg, <<LB>>))
    IN [n \in 1..Len(segs) |-> KeyBase(segs[n])]

RECURSIVE AllBound(_, _)
AllBound(keys, path_keys) ==
    IF Len(keys) = 0 THEN TRUE
    ELSE LET hits == {n \in 1..Len(path_keys) : path_keys[n] = keys[1]}
         IN IF hits = {} THEN FALSE
            ELSE AllBound(Tail(keys),
                          Drop(path_keys, CHOOSE n \in hits : \A o \in hits : n <= o))

Unresolved(alias, path) == ~AllBound(ArrayKeys(alias), ArrayKeys(path))

FieldOfModel(model_cls, name) ==
    CHOOSE f \in {model_cls.fields[m] : m \in 1..Len(model_cls.fields)} : f.name = name

C12_UnresolvedIsAbsent ==
    /\ AtExtract =>
           \A m \in 1..Len(model_specs) :
               PathMatches(Top.path, model_specs[m].json_path_pattern) =>
                   LET fields == model_fields_cache[model_specs[m].model_name]
                   IN \A f \in 1..Len(fields) :
                          Unresolved(fields[f].alias, Top.path) =>
                              BuildModelData(Top.path, model_specs[m])[fields[f].field_name]
                                  = None
    /\ \A n \in 1..Len(log) :
           LET spec == model_specs[CHOOSE m \in 1..Len(model_specs) :
                                       model_specs[m].model_name = log[n].model]
               fields == model_fields_cache[log[n].model]
           IN \A f \in 1..Len(fields) :
                  Unresolved(fields[f].alias, log[n].at) =>
                      /\ Cardinality({k \in 1..Len(log) :
                                         /\ log[k].walk = log[n].walk
                                         /\ log[k].at = log[n].at
                                         /\ log[k].model = log[n].model}) = 1
                      /\ log[n].ok => log[n].out[fields[f].field_name] = None
                      /\ log[n].ok =>
                             ~FieldOfModel(spec.data_model, fields[f].field_name).required
                      /\ ~log[n].ok =>
                             \/ ~FieldOfModel(spec.data_model, fields[f].field_name).required
                             \/ \E e \in 1..Len(log[n].out.errors) :
                                    log[n].out.errors[e] = fields[f].field_name
    /\ \A w \in WalksDone :
           \A at \in MappingPaths(call.docs[w], Root) :
               \A m \in 1..Len(model_specs) :
                   PathMatches(at, model_specs[m].json_path_pattern) =>
                       \E n \in 1..Len(log) :
                           /\ log[n].walk = w
                           /\ log[n].at = at
                           /\ log[n].model = model_specs[m].model_name

\* A finished walk: the rows of TxNote at two transactions hold None for note
\* and tag although the item has a note and the root a tag, and TxLabel was
\* rejected at the first of them.
C12_Witness ==
    /\ env.name = "notes"
    /\ stack = <<>>
    /\ call.kind = "parse"
    /\ Len(results["TxNote"]) >= 2
    /\ \A n \in 1..Len(results["TxNote"]) :
           results["TxNote"][n].note = None /\ results["TxNote"][n].tag = None
    /\ ValueAt(CurDoc, <<"root", ".", "items", "[", "0", "]", ".", "notes",
                         "[", "0", "]", ".", "text">>) # Absent
    /\ \E n \in 1..Len(errors) : errors[n].model = "TxLabel"

(***************************************************************************)
(* parse on a new parser as a function of the document: _parsing_walk with  *)
(* the state [cache, results, errors] passed along.                         *)
(***************************************************************************)
\* _parsing_build_model_data reading the index cache
BuildModelDataFrom(cache, path, spec) ==
    LET fields == model_fields_cache[spec.model_name]
    IN [fn \in {fields[m].field_name : m \in 1..Len(fields)} |->
           LET field == fields[CHOOSE m \in 1..Len(fields) :
                                  /\ fields[m].field_name = fn
                                  /\ \A n \in (m + 1)..Len(fields) :
                                         fields[n].field_name # fn]
           IN Lookup(cache, ResolvedAlias(field, path))]

RECURSIVE ExtractFrom(_, _, _)
\* _parsing_extract_models_at_path from position m of self.model_specs on
ExtractFrom(st, path, m) ==
    IF m > Len(model_specs) THEN st
    ELSE LET spec == model_specs[m]
             data == BuildModelDataFrom(st.cache, path, spec)
             bad == ValidationErrors(spec.data_model, data)
         IN ExtractFrom(
                IF ~PathMatches(path, spec.json_path_pattern) THEN st
                ELSE IF Len(bad) = 0
                THEN [st EXCEPT !.results[spec.model_name] =
                                    Append(@, ModelDump(spec.data_model, data))]
                ELSE [st EXCEPT !.errors =
                                    Append(@, [path |-> path, model |-> spec.model_name,
                                               errors |-> bad])],
                path, m + 1)

RECURSIVE WalkFrom(_, _, _)
RECURSIVE WalkChildrenFrom(_, _, _, _)
\* The loop of _parsing_walk over the children of obj from child i (0-based) on
WalkChildrenFrom(st, obj, path, i) ==
    IF i >= NumChildren(obj) THEN st
    ELSE LET frame == [obj |-> obj, path |-> path, i |-> i]
             child_path == ChildPath(frame)
             value == ChildValue(frame)
             indexed == [st EXCEPT !.cache = Store(@, child_path, value)]
         IN WalkChildrenFrom(IF IsContainer(value)
                             THEN WalkFrom(indexed, value, child_path)
                             ELSE indexed,
                             obj, path, i + 1)

\* _parsing_walk(obj, path)
WalkFrom(st, obj, path) ==
    LET entered == [st EXCEPT !.cache = Store(@, path, obj)]
        walked == WalkChildrenFrom(entered, obj, path, 0)
    IN IF IsDict(obj) THEN ExtractFrom(walked, path, 1) ELSE walked

\* The state a parse of doc leaves on a parser whose error list is empty
SingleParse(doc) ==
    WalkFrom([cache |-> EmptyDict, results |-> FreshResults, errors |-> <<>>], doc, Root)

(***************************************************************************)
(* C13.  The rows a finished parse_batch call leaves for a table are the    *)
(* rows a single parse of each of its documents leaves for that table,      *)
(* concatenated in batch order; and the rows a finished parse call leaves   *)
(* are those of a single parse of its document on a new parser, whatever    *)
(* calls came before.                                                       *)
(***************************************************************************)
RECURSIVE ConcatRows(_, _)
ConcatRows(docs, name) ==
    IF Len(docs) = 0 THEN <<>>
    ELSE SingleParse(docs[1]).results[name] \o ConcatRows(Tail(docs), name)

C13_BatchIsConcatenation ==
    \A n \in 1..Len(hist) :
        \A name \in ModelNames :
            hist[n].results[name] = ConcatRows(hist[n].docs, name)

(***************************************************************************)
(* C14.  Whenever a parse is about to extract at a mapping node P, the      *)
(* index holds, with the document's value, the path of P and of every       *)
(* ancestor of P, and every key path A.k of P and of every ancestor mapping *)
(* A of P, wherever k stands in the key order of A.                         *)
(***************************************************************************)
C14_AncestorsIndexed ==
    (AtExtract /\ call.kind = "parse") =>
        \A d \in 1..Len(stack) :
            LET node == stack[d]
            IN /\ node.path \in DOMAIN indexed_cache
               /\ indexed_cache[node.path] = node.obj
               /\ IsDict(node.obj) =>
                      \A n \in 1..Len(node.obj.kv) :
                          LET key_path == FieldPath(node.path, node.obj.kv[n][1])
                          IN /\ key_path \in DOMAIN indexed_cache
                             /\ indexed_cache[key_path] = node.obj.kv[n][2]

(***************************************************************************)
(* The helpers called directly: a second specification applies each of them *)
(* to arguments drawn from bounded sets and keeps the call in probe; a      *)
(* behaviour is one call.                                                   *)
(***************************************************************************)
SegKeys == {"items", "tags"}
PathSuffixes == {<<>>, <<LB, "0", RB>>, <<LB, "1", "0", RB>>}
PatternSuffixes == {<<>>, Wildcard, <<LB, "0", RB>>}

\* root followed by at most MaxDepth segments, each a key with a suffix
PathsOver(suffixes) ==
    LET segs == {<<key>> \o suffix : key \in SegKeys, suffix \in suffixes}
    IN {Join(<<Root>> \o tail) : tail \in UNION {[1..n -> segs] : n \in 0..MaxDepth}}

ConcretePaths == PathsOver(PathSuffixes)
Patterns == PathsOver(PatternSuffixes)

HelperInit ==
    /\ env = [name |-> "helpers", walks |-> 0]
    /\ model_specs = <<>>
    /\ model_fields_cache = EmptyDict
    /\ results = EmptyDict
    /\ errors = <<>>
    /\ indexed_cache = EmptyDict
    /\ stack = <<>>
    /\ call = Idle
    /\ log = <<>>
    /\ hist = <<>>
    /\ probe = NoProbe

\* self._parsing_path_matches(path, pattern)
MatchCall(path, pattern) ==
    /\ probe = NoProbe
    /\ probe' = [op |-> "matches", path |-> path, pattern |-> pattern,
                 out |-> PathMatches(path, pattern)]
    /\ UNCHANGED <<model_specs, model_fields_cache, results, errors, indexed_cache,
                   stack, call, log, hist, env>>

\* Arguments of the resolver: aliases root[.key or .key[*]]*.id, and current
\* paths one segment deeper than the aliases' prefixes, of indexed segments
\* and the plain segment items.
AliasSuffixes == {<<>>, Wildcard}

Aliases == {FieldPath(prefix, "id") : prefix \in PathsOver(AliasSuffixes)}

CurrentPaths ==
    LET segs == {<<key>> \o suffix : key \in SegKeys, suffix \in PathSuffixes \ {<<>>}}
                \cup {<<"items">>}
    IN {Join(<<Root>> \o tail) :
           tail \in UNION {[1..n -> segs] : n \in 0..(MaxDepth + 1)}}

\* self._parsing_replace_wildcard_with_index(alias_path, current_path)
ResolveCall(alias_path, current_path) ==
    /\ probe = NoProbe
    /\ probe' = [op |-> "resolve", alias |-> alias_path, path |-> current_path,
                 out |-> ReplaceWildcardWithIndex(alias_path, current_path)]
    /\ UNCHANGED <<model_specs, model_fields_cache, results, errors, indexed_cache,
                   stack, call, log, hist, env>>

\* Model classes with up to MaxFields fields, the aliases drawn from a pool:
\* with and without wildcard, of several depths, with a concrete index, of one
\* segment only, and with a first segment other than root.
PoolAliases ==
    {A(<<K("root"), K("id")>>),
     A(<<K("root"), K("items"), K("id")>>),
     A(<<K("root"), W("items"), K("id")>>),
     A(<<K("root"), W("tags"), K("id")>>),
     A(<<K("root"), W("items"), W("tags"), K("id")>>),
     A(<<K("root"), <<"items", LB, "0", RB>>, K("id")>>),
     A(<<K("root"), <<"items", LB, "1", RB>>, K("name")>>),
     K("sku"),
     A(<<K("other"), K("id")>>)}

FieldNames == <<"f1", "f2", "f3", "f4">>

PoolModels ==
    UNION {{[name |-> "T", fields |-> [m \in 1..n |-> F(FieldNames[m], aliases[m], "str")]] :
               aliases \in [1..n -> PoolAliases]} :
              n \in 1..MaxFields}

\* The loop body of _model_specs_create_specs_and_adapters for one model class
CompileCall(model_cls) ==
    /\ probe = NoProbe
    /\ probe' = [op |-> "compile", model |-> model_cls,
                 out |-> IF ModelRaises(model_cls) THEN <<"ValueError">>
                         ELSE JsonPathPattern(model_cls)]
    /\ UNCHANGED <<model_specs, model_fields_cache, results, errors, indexed_cache,
                   stack, call, log, hist, env>>

(***************************************************************************)
(* spec_based.py: infer_model_specs for one model class.  A field carries,  *)
(* next to its name and alias, whether it is marked primary_key in its      *)
(* json_schema_extra.                                                       *)
(***************************************************************************)
PF(name, alias, primary) == [name |-> name, alias |-> alias, primary |-> primary]

\* field_name.endswith("_id"), for the field names in use
EndsWithId(field_name) == field_name \in {"tx_id", "item_id", "order_id"}

\* is_pk (FieldInfo has no attribute constraints: the second operand is False)
IsPk(field) == field.name = "id" \/ (EndsWithId(field.name) /\ field.primary)

\* `if alias and alias != field_name`
Considered(field) == field.alias # NoAlias /\ field.alias # <<field.name>>

RECURSIVE PkAlias(_, _)
\* pk_alias after the loop over the fields; NoAlias stands for None
PkAlias(fields, pk_alias) ==
    IF Len(fields) = 0 THEN pk_alias
    ELSE PkAlias(Tail(fields),
                 IF /\ Considered(fields[1])
                    /\ \/ IsPk(fields[1])
                       \/ pk_alias = NoAlias /\ fields[1].name \in {"id", "tx_id"}
                 THEN fields[1].alias
                 ELSE pk_alias)

\* fk_aliases after the loop
FkAliases(fields) ==
    LET sel == SelectSeq(fields, LAMBDA f : Considered(f) /\ EndsWithId(f.name) /\ ~IsPk(f))
    IN [m \in 1..Len(sel) |-> sel[m].alias]

\* _find_common_path_pattern; aliases is non-empty
FindCommonPathPattern(aliases) ==
    LET alias_segments == [m \in 1..Len(aliases) |-> Split(aliases[m], Dot)]
        common_segments == CommonSegments(alias_segments, 0, MinLen(alias_segments))
    IN IF Len(common_segments) > 0 THEN Join(common_segments) ELSE Root

\* _find_deepest_common_path; aliases is non-empty
FindDeepestCommonPath(aliases) ==
    LET paths == [m \in 1..Len(aliases) |-> AliasPrefix(aliases[m])]
        depths == {Count(paths[m], Dot) : m \in 1..Len(paths)}
        common(depth) ==
            FindCommonPathPattern(SelectSeq(paths, LAMBDA q : Count(q, Dot) = depth))
        good == {depth \in depths : common(depth) # <<>> /\ common(depth) # Root}
    IN IF good = {} THEN Root
       ELSE common(CHOOSE depth \in good : \A o \in good : o <= depth)

\* _find_shallowest_path; aliases is non-empty
FindShallowestPath(aliases) ==
    LET paths == [m \in 1..Len(aliases) |-> AliasPrefix(aliases[m])]
    IN MinByDots(Tail(paths), paths[1])

\* _get_parent_path
GetParentPath(path) ==
    IF Len(Split(path, Dot)) <= 1 THEN NoAlias ELSE Join(ButLast(Split(path, Dot)))

\* The ModelSpec infer_model_specs appends for a model class
InferModelSpec(model_cls) ==
    LET fields == model_cls.fields
        considered == SelectSeq(fields, Considered)
        all_aliases == [m \in 1..Len(considered) |-> considered[m].alias]
        pk_alias == PkAlias(fields, NoAlias)
        fk_aliases == FkAliases(fields)
        path_pattern ==
            IF pk_alias # NoAlias
            THEN IF Len(Split(pk_alias, Dot)) > 1 THEN AliasPrefix(pk_alias) ELSE Root
            ELSE IF Len(all_aliases) > 0 THEN FindDeepestCommonPath(all_aliases)
            ELSE Root
        shallowest == FindShallowestPath(fk_aliases)
    IN [path_pattern |-> path_pattern,
        parent_pattern |->
            IF Len(fk_aliases) = 0 THEN NoAlias
            ELSE IF shallowest = path_pattern THEN GetParentPath(path_pattern)
            ELSE shallowest]

\* The fields the model classes passed to infer_model_specs are made of
PoolFields ==
    {PF("id", A(<<K("root"), K("id")>>), FALSE),
     PF("id", A(<<K("root"), W("items"), K("id")>>), FALSE),
     PF("tx_id", A(<<K("root"), W("items"), W("transactions"), K("tx_id")>>), FALSE),
     PF("tx_id", A(<<K("root"), W("items"), W("transactions"), K("tx_id")>>), TRUE),
     PF("item_id", A(<<K("root"), W("items"), K("id")>>), FALSE),
     PF("item_id", A(<<K("root"), W("items"), K("id")>>), TRUE),
     PF("order_id", A(<<K("root"), K("id")>>), FALSE),
     PF("amount", A(<<K("root"), W("items"), W("transactions"), K("amount")>>), FALSE)}

InferModels ==
    UNION {{[name |-> "T", fields |-> fields] :
               fields \in {fs \in [1..n -> PoolFields] :
                              \A a, b \in 1..n : fs[a].name = fs[b].name => a = b}} :
              n \in 1..MaxFields}

\* infer_model_specs({"T": model_cls})
InferCall(model_cls) ==
    /\ probe = NoProbe
    /\ probe' = [op |-> "infer", model |-> model_cls, out |-> InferModelSpec(model_cls)]
    /\ UNCHANGED <<model_specs, model_fields_cache, results, errors, indexed_cache,
                   stack, call, log, hist, env>>

HelperNext ==
    /\ probe = NoProbe
    /\ \/ \E path \in ConcretePaths, pattern \in Patterns : MatchCall(path, pattern)
       \/ \E alias \in Aliases, path \in CurrentPaths : ResolveCall(alias, path)
       \/ \E model_cls \in PoolModels : CompileCall(model_cls)
       \/ \E model_cls \in InferModels : InferCall(model_cls)

HelperSpec == HelperInit /\ [][HelperNext]_vars

(***************************************************************************)
(* C15.  As stated: a path matches a pattern exactly when the path with     *)
(* every [idx] replaced by [*] is the pattern.                              *)
(***************************************************************************)
C15_MatchesIffNormalizedEqual ==
    probe.op = "matches" =>
        (probe.out <=> Normalize(probe.path) = probe.pattern)

(***************************************************************************)
(* C15, amended.  A path matches a pattern exactly when both have the same  *)
(* number of segments and every path segment agrees with the pattern        *)
(* segment at its place: a pattern segment with [*] takes any index, every  *)
(* other pattern segment, one with a concrete index included, only itself.  *)
(* For a pattern without concrete index this is the statement above.        *)
(***************************************************************************)
SegmentAgrees(seg, pattern_seg) ==
    IF Contains(pattern_seg, Wildcard) THEN Normalize(seg) = pattern_seg
    ELSE seg = pattern_seg

C15_MatchesSegmentwise ==
    probe.op = "matches" =>
        LET path_segs == Split(probe.path, Dot)
            pattern_segs == Split(probe.pattern, Dot)
        IN /\ probe.out <=>
                  /\ Len(path_segs) = Len(pattern_segs)
                  /\ \A n \in 1..Len(pattern_segs) :
                         SegmentAgrees(path_segs[n], pattern_segs[n])
           /\ Normalize(probe.pattern) = probe.pattern =>
                  (probe.out <=> Normalize(probe.path) = probe.pattern)

\* A match of a two-digit index against a wildcard, below a one-digit one.
C15_Witness ==
    /\ probe.op = "matches"
    /\ probe.out
    /\ probe.path = <<"root", ".", "items", "[", "0", "]", ".", "tags", "[", "1", "0", "]">>
    /\ probe.pattern = <<"root", ".", "items", "[", "*", "]", ".", "tags", "[", "*", "]">>

(***************************************************************************)
(* C16.  The resolver with its two cursors.  With cur[n] the position of    *)
(* the cursor in the current path after n alias segments: a wildcard        *)
(* segment key[*] is bound to the first current-path segment at or after    *)
(* the cursor whose key base is key, comes out as key[idx] with that        *)
(* segment's index and puts the cursor just behind it (it comes out         *)
(* unchanged, the cursor staying, when there is none); a literal segment    *)
(* comes out unchanged and moves the cursor by one exactly when the segment *)
(* at the cursor equals it.  And when the wildcard keys of the alias occur  *)
(* in the current path in their order, the i-th wildcard comes out with the *)
(* index of the i-th array segment of that leftmost occurrence.             *)
(***************************************************************************)
\* The index of a segment key[idx]: what stands between its brackets.
IndexOf(seg) == SubSeq(seg, Find(seg, LB) + 1, Len(seg) - 1)

\* The 1-based position of the first segment after position cursor whose key
\* base is key and which has an index; 0 when there is none.
FirstWithKey(path_segs, cursor, key) ==
    LET hits == {k \in (cursor + 1)..Len(path_segs) :
                    /\ Contains(path_segs[k], <<LB>>)
                    /\ SegBase(path_segs[k]) = key}
    IN IF hits = {} THEN 0 ELSE CHOOSE k \in hits : \A o \in hits : k <= o

\* The cursor after the first n alias segments.
CursorAfter(alias_segs, path_segs) ==
    LET cur[n \in 0..Len(alias_segs)] ==
            IF n = 0 THEN 0
            ELSE LET seg == alias_segs[n]
                     hit == FirstWithKey(path_segs, cur[n - 1], SegBase(seg))
                 IN IF Contains(seg, Wildcard)
                    THEN IF hit > 0 THEN hit ELSE cur[n - 1]
                    ELSE IF cur[n - 1] < Len(path_segs) /\ path_segs[cur[n - 1] + 1] = seg
                    THEN cur[n - 1] + 1
                    ELSE cur[n - 1]
    IN cur

RECURSIVE LeftmostOccurrence(_, _, _)
\* The positions in path_keys, after position from, of the leftmost
\* occurrence of keys as a subsequence; keys does occur.
LeftmostOccurrence(keys, path_keys, from) ==
    IF Len(keys) = 0 THEN <<>>
    ELSE LET k == CHOOSE k \in (from + 1)..Len(path_keys) :
                      /\ path_keys[k] = keys[1]
                      /\ \A o \in (from + 1)..(k - 1) : path_keys[o] # keys[1]
         IN <<k>> \o LeftmostOccurrence(Tail(keys), path_keys, k)

C16_WildcardBinding ==
    probe.op = "resolve" =>
        LET alias_segs == Split(probe.alias, Dot)
            path_segs == Split(probe.path, Dot)
            out_segs == Split(probe.out, Dot)
            cur == CursorAfter(alias_segs, path_segs)
        IN /\ Len(out_segs) = Len(alias_segs)
           /\ \A n \in 1..Len(alias_segs) :
                  LET seg == alias_segs[n]
                      hit == FirstWithKey(path_segs, cur[n - 1], SegBase(seg))
                  IN IF Contains(seg, Wildcard) /\ hit > 0
                     THEN out_segs[n] = SegBase(seg) \o <<LB>> \o IndexOf(path_segs[hit])
                                            \o <<RB>>
                     ELSE out_segs[n] = seg
           /\ ~Unresolved(probe.alias, probe.path) =>
                  LET array_segs == SelectSeq(path_segs, LAMBDA seg : Contains(seg, <<LB>>))
                      wild == {n \in 1..Len(alias_segs) : Contains(alias_segs[n], Wildcard)}
                      occ == LeftmostOccurrence(ArrayKeys(probe.alias),
                                                ArrayKeys(probe.path), 0)
                  IN \A n \in wild :
                         LET i == Cardinality({o \in wild : o <= n})
                         IN IndexOf(out_segs[n]) = IndexOf(array_segs[occ[i]])

\* Both wildcards bound, the first behind a skipped array segment of the path.
C16_Witness ==
    /\ probe.op = "resolve"
    /\ probe.alias = <<"root", ".", "tags", "[", "*", "]", ".", "items", "[", "*", "]",
                       ".", "id">>
    /\ probe.path = <<"root", ".", "items", "[", "0", "]", ".", "tags", "[", "1", "0", "]",
                      ".", "items", "[", "0", "]">>
    /\ probe.out = <<"root", ".", "tags", "[", "1", "0", "]", ".", "items", "[", "0", "]",
                     ".", "id">>

(***************************************************************************)
(* Statements about the compiled pattern of one model class.                *)
(***************************************************************************)
\* The prefixes of the wildcard aliases of a model class, in field order.
WildcardPrefixes(model_cls) ==
    LET sel == SelectSeq(model_cls.fields, LAMBDA f : Contains(f.alias, Wildcard))
    IN [m \in 1..Len(sel) |-> AliasPrefix(sel[m].alias)]

NumSegments(path) == Len(Split(path, Dot))

\* The model class with its fields in another order.
Permuted(model_cls, perm) ==
    [model_cls EXCEPT !.fields = [m \in 1..Len(model_cls.fields) |->
                                     model_cls.fields[perm[m]]]]

FieldOrders(n) == {perm \in [1..n -> 1..n] : \A a, b \in 1..n : perm[a] = perm[b] => a = b}

(***************************************************************************)
(* C17.  As stated: for a model class with a wildcard alias the pattern is  *)
(* the prefix with the most segments among its wildcard aliases, and it is  *)
(* the same whatever the order of the fields.                               *)
(***************************************************************************)
C17_DeepestWhateverTheOrder ==
    (probe.op = "compile" /\ Len(WildcardPrefixes(probe.model)) > 0) =>
        LET prefixes == WildcardPrefixes(probe.model)
        IN /\ \E m \in 1..Len(prefixes) : probe.out = prefixes[m]
           /\ \A m \in 1..Len(prefixes) : NumSegments(prefixes[m]) <= NumSegments(probe.out)
           /\ \A perm \in FieldOrders(Len(probe.model.fields)) :
                  JsonPathPattern(Permuted(probe.model, perm)) = probe.out

(***************************************************************************)
(* C17, amended.  The pattern is a prefix of a wildcard alias with the most *)
(* segments among the wildcard aliases' prefixes: the first declared of     *)
(* those.  The aliases without wildcard play no part, and the order of the  *)
(* fields plays none when no two distinct prefixes share the largest        *)
(* number of segments.                                                      *)
(***************************************************************************)
C17_FirstDeepestWildcardPrefix ==
    (probe.op = "compile" /\ Len(WildcardPrefixes(probe.model)) > 0) =>
        LET prefixes == WildcardPrefixes(probe.model)
            deepest == {m \in 1..Len(prefixes) :
                           \A o \in 1..Len(prefixes) :
                               NumSegments(prefixes[o]) <= NumSegments(prefixes[m])}
            first == CHOOSE m \in deepest : \A o \in deepest : m <= o
        IN /\ probe.out = prefixes[first]
           /\ (\A a, b \in deepest : prefixes[a] = prefixes[b]) =>
                  \A perm \in FieldOrders(Len(probe.model.fields)) :
                      JsonPathPattern(Permuted(probe.model, perm)) = probe.out

\* The deepest prefix is declared second, after a shallower wildcard alias and
\* before an alias without wildcard.
C17_Witness ==
    /\ probe.op = "compile"
    /\ Len(probe.model.fields) = 3
    /\ probe.model.fields[1].alias = A(<<K("root"), W("items"), K("id")>>)
    /\ probe.model.fields[2].alias = A(<<K("root"), W("items"), W("tags"), K("id")>>)
    /\ probe.model.fields[3].alias = A(<<K("root"), K("items"), K("id")>>)
    /\ probe.out = A(<<K("root"), W("items"), W("tags")>>)

(***************************************************************************)
(* C18.  For a model class without wildcard alias the pattern is the        *)
(* longest common prefix, segment by segment, of the aliases' prefixes      *)
(* (two segments agree when their key bases do; the segment of the first    *)
(* alias is taken), and it is root when the prefixes share no segment:      *)
(* when the first segments differ and when no alias has a prefix at all.    *)
(***************************************************************************)
\* The segments of an alias before its last one.
PrefixSegments(alias) == ButLast(Split(alias, Dot))

\* The number of leading positions at which all the prefixes agree.
CommonLength(prefixes) ==
    LET agree(k) == \A m \in 1..Len(prefixes) :
                        /\ k <= Len(prefixes[m])
                        /\ SegBase(prefixes[m][k]) = SegBase(prefixes[1][k])
        lens == {k \in 0..Len(prefixes[1]) : \A o \in 1..k : agree(o)}
    IN CHOOSE k \in lens : \A o \in lens : o <= k

C18_CommonPrefixOrRoot ==
    (probe.op = "compile" /\ Len(WildcardPrefixes(probe.model)) = 0) =>
        LET prefixes == [m \in 1..Len(probe.model.fields) |->
                            PrefixSegments(probe.model.fields[m].alias)]
            k == CommonLength(prefixes)
        IN probe.out = IF k = 0 THEN Root ELSE Join(SubSeq(prefixes[1], 1, k))

(***************************************************************************)
(* C19.  The detected primary key of a model class is the field marked      *)
(* primary, else the field named id, else the first field whose name ends   *)
(* in _id.  The candidates are the fields whose name ends in _id other than *)
(* the detected primary key.  With a candidate, the parent pattern is the   *)
(* prefix of a candidate alias with the fewest segments, or, when that      *)
(* prefix is the table's own pattern, that pattern without its last         *)
(* segment; without candidate there is no parent pattern.                   *)
(***************************************************************************)
DetectedPk(fields) ==
    LET marked == {m \in 1..Len(fields) : fields[m].primary}
        named == {m \in 1..Len(fields) : fields[m].name = "id"}
        suffixed == {m \in 1..Len(fields) : EndsWithId(fields[m].name)}
        first(set) == CHOOSE m \in set : \A o \in set : m <= o
    IN IF marked # {} THEN first(marked)
       ELSE IF named # {} THEN first(named)
       ELSE IF suffixed # {} THEN first(suffixed)
       ELSE 0

C19_ParentPattern ==
    probe.op = "infer" =>
        LET fields == probe.model.fields
            candidates == {m \in 1..Len(fields) :
                              EndsWithId(fields[m].name) /\ m # DetectedPk(fields)}
            fewest == {m \in candidates :
                          \A o \in candidates :
                              NumSegments(AliasPrefix(fields[m].alias))
                                  <= NumSegments(AliasPrefix(fields[o].alias))}
        IN IF candidates = {} THEN probe.out.parent_pattern = NoAlias
           ELSE \E m \in fewest :
                    LET prefix == AliasPrefix(fields[m].alias)
                    IN probe.out.parent_pattern =
                           IF prefix = probe.out.path_pattern
                           THEN GetParentPath(probe.out.path_pattern)
                           ELSE prefix

(***************************************************************************)
(* C20.  Row order.  The rows of a table are, in their order, the rows the  *)
(* extractions of the call appended; of two extractions of one table the    *)
(* earlier one is that of the earlier document of the batch or, within a    *)
(* document, of the node with the lower index at the first array segment    *)
(* where the two paths differ; and when the walker is about to extract at a *)
(* node, every matching node strictly below it has been extracted.          *)
(***************************************************************************)
RECURSIVE IndexVector(_)
\* The indices of a concrete path, in order, as numbers.
IndexVector(path) ==
    IF Len(path) = 0 THEN <<>>
    ELSE IF path[1] = LB
    THEN <<ParseInt(DigitRun(Tail(path)))>> \o IndexVector(Tail(path))
    ELSE IndexVector(Tail(path))

\* u comes before v: lower at the first place where they differ
Before(u, v) ==
    \E k \in 1..Len(u) :
        /\ k <= Len(v)
        /\ u[k] < v[k]
        /\ \A o \in 1..(k - 1) : u[o] = v[o]

C20_RowOrder ==
    /\ \A name \in DOMAIN results : results[name] = RowsOf(log, name)
    /\ \A a, b \in 1..Len(log) :
           (a < b /\ log[a].model = log[b].model) =>
               \/ log[a].walk < log[b].walk
               \/ /\ log[a].walk = log[b].walk
                  /\ Normalize(log[a].at) = Normalize(log[b].at)
                  /\ Before(IndexVector(log[a].at), IndexVector(log[b].at))
    /\ \A a, b \in 1..Len(log) :
           (/\ log[a].walk = log[b].walk
            /\ log[a].at # log[b].at
            /\ StartsWith(log[b].at, log[a].at)) => b < a
    /\ AtExtract =>
           \A at \in MappingPaths(Top.obj, Top.path) \ {Top.path} :
               \A m \in 1..Len(model_specs) :
                   PathMatches(at, model_specs[m].json_path_pattern) =>
                       \E n \in 1..Len(log) :
                           /\ log[n].walk = call.k
                           /\ log[n].at = at
                           /\ log[n].model = model_specs[m].model_name

\* A finished walk of a document with two items of one transaction each: two
\* rows of Item, two of Tx, and the row of Order appended last.
C20_Witness ==
    /\ env.name = "single"
    /\ stack = <<>>
    /\ Len(log) > 0
    /\ log[Len(log)].model = "Order"
    /\ Len(results["Item"]) = 2
    /\ Len(results["Tx"]) = 2

(***************************************************************************)
(* C21.  Exactly-once accounting.  Once the walks of a call are over, the   *)
(* result set has an entry for every declared table and no other, and for   *)
(* every table the number of its rows plus the number of the error entries  *)
(* the call appended under its name is the number of mapping nodes of the   *)
(* walked documents whose concrete path matches the table's attachment      *)
(* pattern (for one walk: of that document); no matching node is skipped    *)
(* and none is counted twice.                                               *)
(***************************************************************************)
RECURSIVE MatchingNodes(_, _, _)
\* The number of mapping nodes of the subtree v at path whose concrete path
\* matches pattern, counted node by node.
MatchingNodes(v, path, pattern) ==
    LET below[n \in 0..NumChildren(v)] ==
            IF n = 0 THEN 0
            ELSE below[n - 1] +
                 (IF IsDict(v)
                  THEN MatchingNodes(v.kv[n][2], FieldPath(path, v.kv[n][1]), pattern)
                  ELSE MatchingNodes(v.items[n], ItemPath(path, n - 1), pattern))
    IN IF IsDict(v)
       THEN (IF PathMatches(path, pattern) THEN 1 ELSE 0) + below[NumChildren(v)]
       ELSE IF IsList(v) THEN below[NumChildren(v)]
       ELSE 0

\* The matching nodes of the first k documents of a batch.
MatchingInWalks(docs, k, pattern) ==
    LET upto[w \in 0..k] ==
            IF w = 0 THEN 0 ELSE upto[w - 1] + MatchingNodes(docs[w], Root, pattern)
    IN upto[k]

\* The error entries the call appended under the name of a table.
ErrorsFor(name) == Cardinality({n \in 1..Len(NewErrors) : NewErrors[n].model = name})

C21_ExactlyOnce ==
    (call.k >= 1 /\ stack = <<>>) =>
        /\ DOMAIN results = ModelNames
        /\ \A m \in 1..Len(model_specs) :
               LET name == model_specs[m].model_name
               IN Len(results[name]) + ErrorsFor(name) =
                      MatchingInWalks(call.docs, call.k, model_specs[m].json_path_pattern)

\* One walk is over of a document with two items: a table with a row and a
\* rejected record (two matching nodes), and a table no node of which
\* matches, whose entry is there and empty.
C21_Witness ==
    /\ env.name = "single"
    /\ call.k = 1
    /\ stack = <<>>
    /\ Len(results["Item"]) = 1
    /\ ErrorsFor("Item") = 1
    /\ MatchingNodes(call.docs[1], Root, PatternOf("Item")) = 2
    /\ MatchingNodes(call.docs[1], Root, PatternOf("Tx")) = 0
    /\ results["Tx"] = <<>>

(***************************************************************************)
(* The module-level variants: extract_model_data of done.py (path index     *)
(* built during the walk, extraction after the subtree) and of              *)
(* spec_based.py (every alias navigated from the document root, extraction  *)
(* before the subtree).  A spec is [model_cls, path_pattern]; results are   *)
(* keyed by path_pattern.                                                   *)
(***************************************************************************)
RECURSIVE ResolveAliasSegments(_, _, _, _)
\* The loop of resolve_alias_with_wildcards: the while loop leaves current_idx
\* at len(current_segments) when it ends without a break.
ResolveAliasSegments(alias_segments, current_segments, current_idx, resolved_segments) ==
    IF Len(alias_segments) = 0 THEN resolved_segments
    ELSE LET alias_seg == alias_segments[1]
             rest == Tail(alias_segments)
         IN IF Contains(alias_seg, Wildcard)
            THEN LET key_name == KeyBase(alias_seg)
                     index == ScanForKey(current_segments, current_idx, key_name)
                 IN IF index >= 0
                    THEN ResolveAliasSegments(rest, current_segments, index + 1,
                            Append(resolved_segments,
                                   key_name \o <<LB>>
                                   \o IndexPatternSearch(current_segments[index + 1])
                                   \o <<RB>>))
                    ELSE ResolveAliasSegments(rest, current_segments,
                            IF current_idx < Len(current_segments)
                            THEN Len(current_segments) ELSE current_idx,
                            Append(resolved_segments, alias_seg))
            ELSE ResolveAliasSegments(rest, current_segments,
                    IF /\ current_idx < Len(current_segments)
                       /\ current_segments[current_idx + 1] = alias_seg
                    THEN current_idx + 1 ELSE current_idx,
                    Append(resolved_segments, alias_seg))

ResolveAliasWithWildcards(alias_path, current_path) ==
    Join(ResolveAliasSegments(Split(alias_path, Dot), Split(current_path, Dot), 0, <<>>))

RECURSIVE ReplaceRootDot(_)
\* resolved_alias.replace("root.", "")
ReplaceRootDot(s) ==
    IF Len(s) = 0 THEN <<>>
    ELSE IF Len(s) >= 2 /\ s[1] = "root" /\ s[2] = Dot THEN ReplaceRootDot(Drop(s, 2))
    ELSE <<s[1]>> \o ReplaceRootDot(Tail(s))

RECURSIVE RStrip(_, _)
\* s.rstrip(c)
RStrip(s, c) == IF Len(s) > 0 /\ s[Len(s)] = c THEN RStrip(ButLast(s), c) ELSE s

\* int(index_str) succeeds
IsInt(index_str) == Len(index_str) > 0 /\ \A n \in 1..Len(index_str) : IsDigit(index_str[n])

\* The key a segment without index spells: a key is one token of a path
KeyOf(toks) == IF Len(toks) = 1 THEN toks[1] ELSE ""

RECURSIVE GetValueLoop(_, _)
\* The loop of _get_value_from_path over parts
GetValueLoop(current, parts) ==
    IF Len(parts) = 0 THEN current
    ELSE LET part == parts[1]
         IN IF Contains(part, <<LB>>)
            THEN LET key == KeyOf(KeyBase(part))
                     index_str == RStrip(Drop(part, Find(part, LB)), RB)
                 IN IF index_str = <<Star>> \/ ~IsInt(index_str) THEN None
                    ELSE IF IsDict(current) /\ HasKey(current, key)
                    THEN LET array == DictGet(current, key)
                         IN IF IsList(array) /\ ParseInt(index_str) < Len(array.items)
                            THEN GetValueLoop(array.items[ParseInt(index_str) + 1],
                                              Tail(parts))
                            ELSE None
                    ELSE None
            ELSE IF IsDict(current) /\ HasKey(current, KeyOf(part))
            THEN GetValueLoop(DictGet(current, KeyOf(part)), Tail(parts))
            ELSE None

GetValueFromPath(obj, path) == GetValueLoop(obj, Split(path, Dot))

\* alias == field_name or alias is None
IsLocal(field) == field.alias = <<field.name>> \/ field.alias = NoAlias

FieldNamed(model_cls, fn) ==
    model_cls.fields[CHOOSE m \in 1..Len(model_cls.fields) :
                         /\ model_cls.fields[m].name = fn
                         /\ \A n \in (m + 1)..Len(model_cls.fields) :
                                model_cls.fields[n].name # fn]

\* _build_model_data of done.py
IndexBuildModelData(obj, path, spec, path_index) ==
    [fn \in {spec.model_cls.fields[m].name : m \in 1..Len(spec.model_cls.fields)} |->
        LET field == FieldNamed(spec.model_cls, fn)
        IN IF IsLocal(field) THEN DictGet(obj, fn)
           ELSE Lookup(path_index, ResolveAliasWithWildcards(field.alias, path))]

\* _build_model_data of spec_based.py
RootBuildModelData(obj, path, spec, root_json) ==
    [fn \in {spec.model_cls.fields[m].name : m \in 1..Len(spec.model_cls.fields)} |->
        LET field == FieldNamed(spec.model_cls, fn)
        IN IF IsLocal(field) THEN DictGet(obj, fn)
           ELSE GetValueFromPath(root_json,
                    ReplaceRootDot(ResolveAliasWithWildcards(field.alias, path)))]

\* The body of the loop over specs, given the record data built for the spec
Validated(st, path, spec, data) ==
    LET bad == ValidationErrors(spec.model_cls, data)
    IN IF ~PathMatches(path, spec.path_pattern) THEN st
       ELSE IF Len(bad) = 0
       THEN [st EXCEPT !.results[spec.path_pattern] =
                           Append(@, ModelDump(spec.model_cls, data))]
       ELSE [st EXCEPT !.errors =
                           Append(@, [path |-> path, model |-> spec.path_pattern,
                                      errors |-> bad])]

RECURSIVE IndexExtractModelsAtPath(_, _, _, _, _)
\* _extract_models_at_path of done.py from position m of specs on
IndexExtractModelsAtPath(st, obj, path, specs, m) ==
    IF m > Len(specs) THEN st
    ELSE IndexExtractModelsAtPath(
             Validated(st, path, specs[m],
                       IndexBuildModelData(obj, path, specs[m], st.path_index)),
             obj, path, specs, m + 1)

RECURSIVE IndexWalk(_, _, _, _)
RECURSIVE IndexWalkChildren(_, _, _, _, _)
IndexWalkChildren(st, obj, path, specs, i) ==
    IF i >= NumChildren(obj) THEN st
    ELSE LET frame == [obj |-> obj, path |-> path, i |-> i]
             child_path == ChildPath(frame)
             value == ChildValue(frame)
             indexed == [st EXCEPT !.path_index = Store(@, child_path, value)]
         IN IndexWalkChildren(IF IsContainer(value)
                              THEN IndexWalk(indexed, value, child_path, specs)
                              ELSE indexed,
                              obj, path, specs, i + 1)

\* walk(obj, path) of done.py
IndexWalk(st, obj, path, specs) ==
    LET entered == [st EXCEPT !.path_index = Store(@, path, obj)]
        walked == IndexWalkChildren(entered, obj, path, specs, 0)
    IN IF IsDict(obj) THEN IndexExtractModelsAtPath(walked, obj, path, specs, 1)
       ELSE walked

\* results = {spec.path_pattern: [] for spec in specs}
FreshByPattern(specs) == [p \in {specs[m].path_pattern : m \in 1..Len(specs)} |-> <<>>]

\* extract_model_data of done.py
IndexExtractModelData(json_obj, specs) ==
    LET st == IndexWalk([path_index |-> EmptyDict, results |-> FreshByPattern(specs),
                         errors |-> <<>>], json_obj, Root, specs)
    IN [results |-> st.results, errors |-> st.errors]

RECURSIVE RootCheckSpecs(_, _, _, _, _, _)
\* The loop over specs of recurse, from position m on
RootCheckSpecs(st, obj, path, specs, root_json, m) ==
    IF m > Len(specs) THEN st
    ELSE RootCheckSpecs(
             Validated(st, path, specs[m],
                       RootBuildModelData(obj, path, specs[m], root_json)),
             obj, path, specs, root_json, m + 1)

RECURSIVE Recurse(_, _, _, _, _)
RECURSIVE RecurseChildren(_, _, _, _, _, _)
RecurseChildren(st, obj, path, specs, root_json, i) ==
    IF i >= NumChildren(obj) THEN st
    ELSE LET frame == [obj |-> obj, path |-> path, i |-> i]
         IN RecurseChildren(Recurse(st, ChildValue(frame), ChildPath(frame), specs,
                                    root_json),
                            obj, path, specs, root_json, i + 1)

\* recurse(obj, path) of spec_based.py
Recurse(st, obj, path, specs, root_json) ==
    IF IsDict(obj)
    THEN RecurseChildren(RootCheckSpecs(st, obj, path, specs, root_json, 1),
                         obj, path, specs, root_json, 0)
    ELSE IF IsList(obj) THEN RecurseChildren(st, obj, path, specs, root_json, 0)
    ELSE st

\* extract_model_data of spec_based.py
RootExtractModelData(json_obj, specs) ==
    Recurse([results |-> FreshByPattern(specs), errors |-> <<>>], json_obj, Root, specs,
            json_obj)

\* The specs of the parser's tables, as the module-level variants take them
TableSpecs ==
    [m \in 1..Len(model_specs) |->
        [model_cls |-> model_specs[m].data_model,
         path_pattern |-> model_specs[m].json_path_pattern]]

(***************************************************************************)
(* C22.  Index lookup agrees with direct traversal.  For the document of    *)
(* every finished parse, extract_model_data of the indexed walker and of    *)
(* the root-traversal variant give the same rows per table; and whenever    *)
(* the parser is about to extract at a mapping node, for every table whose  *)
(* pattern matches the node the record it assembles from the index has the  *)
(* same field values as the record the root-traversal variant assembles     *)
(* for that node, whatever the key order of the document's mappings.        *)
(***************************************************************************)
C22_IndexAgreesWithTraversal ==
    /\ \A n \in 1..Len(hist) :
           hist[n].kind = "parse" =>
               IndexExtractModelData(hist[n].docs[1], TableSpecs).results =
                   RootExtractModelData(hist[n].docs[1], TableSpecs).results
    /\ (AtExtract /\ call.kind = "parse") =>
           \A m \in 1..Len(model_specs) :
               PathMatches(Top.path, model_specs[m].json_path_pattern) =>
                   BuildModelData(Top.path, model_specs[m]) =
                       RootBuildModelData(Top.obj, Top.path, TableSpecs[m], CurDoc)

====
